---------------------------- MODULE Spec2Model ----------------------------
(***************************************************************************)
(* Model of the FAL model sync: the catalog client (FalApiClient, in       *)
(* src/src/lib/fal/api-client.ts) and the sync pass (syncFalModels, in     *)
(* src/src/lib/services/fal-sync.ts).                                      *)
(*                                                                         *)
(* Every await of the code is one step of the model.  The provider and the *)
(* store are the environment: each request and each store operation draws  *)
(* its outcome nondeterministically, failures within a budget (faults).    *)
(* Money is counted in thousandths of a dollar (0.025 USD = 25).           *)
(***************************************************************************)
EXTENDS Integers, Sequences, FiniteSets, TLC

(***************************************************************************)
(* Bounds of the model.                                                    *)
(***************************************************************************)
MaxModels == 3      \* records in the provider's catalog (sync pass)
MaxFaults == 1      \* failing requests / store operations in one run
MaxPages == 3       \* pages of a direct fetchModels call
MaxPageLen == 1     \* records on one such page

(***************************************************************************)
(* Program constants.                                                      *)
(***************************************************************************)
PageLimit == 100    \* limit: '100'
BatchSize == 50     \* const batchSize = 50
MaxRetries == 3     \* const maxRetries = 3
MaxCalls == 3       \* calls of getFalClient in one process
DefaultRate == 25   \* return 0.025

VARIABLES
  pages,        \* provider: the catalog, as the sequence of pages it serves
  faults,       \* environment: failures it may still inject
  io,           \* every request and store operation issued, in order
  fm,           \* the running fetchModels call
  ret,          \* what a direct fetchModels call or testConnection returned
  pc,           \* syncFalModels: where the pass is
  thrown,       \* syncFalModels: the error it threw ("" while none)
  creditRate,   \* syncFalModels: const creditRate
  models,       \* syncFalModels: const models
  pricingMap,   \* syncFalModels: const pricingMap
  fp,           \* the running fetchPricing call
  i,            \* model loop: position in models (1-based)
  step,         \* model loop: the await the current model is at
  loc,          \* model loop: existingModel, existingPricing
  result,       \* syncFalModels: const result (SyncResult)
  errIdx,       \* for each entry of result.errors, the position of its record
  tModels,      \* store: table models, by primary key id
  tParams,      \* store: table model_parameters
  tPricing,     \* store: table model_pricing
  runsLeft,     \* twin runs: passes still to start after this one
  first,        \* twin runs: catalog and final store of the first pass
  san,          \* sanitization: a value tree and what the calls made of it
  call,         \* a call of one function: its arguments, what it returned
  upd           \* the updateModelParameters script

srvVars == <<pages, faults>>
fetchVars == <<fm, ret>>
passVars == <<pc, thrown, creditRate, models, pricingMap, fp>>
loopVars == <<i, step, loc, result, errIdx>>
storeVars == <<tModels, tParams, tPricing>>
twinVars == <<runsLeft, first>>
sanVars == <<san>>
callVars == <<call, upd>>
vars == <<pages, faults, io, fm, ret, pc, thrown, creditRate, models,
          pricingMap, fp, i, step, loc, result, errIdx, tModels, tParams,
          tPricing, runsLeft, first, san, call, upd>>

Max(a, b) == IF a >= b THEN a ELSE b
Min(a, b) == IF a <= b THEN a ELSE b

RECURSIVE Flatten(_)
Flatten(ss) == IF ss = <<>> THEN <<>> ELSE Head(ss) \o Flatten(Tail(ss))

(***************************************************************************)
(* The provider's data.  A record of the catalog (FalModel) is             *)
(*   present      FALSE for a null entry of the models array               *)
(*   endpoint_id  the id, NoId when the field is missing                   *)
(*   metadata     whether the record carries metadata                      *)
(*   openapi      <<>> when absent, else <<doc>> (only served with expand) *)
(* The OpenAPI document of "a" has a POST path whose JSON body schema has  *)
(* the properties p, q; that of "b" has no POST path; that of "c" has a    *)
(* POST path whose body schema has no property.  The provider quotes 0.05  *)
(* USD for "a", nothing for "b" and a price of 0 for "c".                  *)
(***************************************************************************)
Ids == {"a", "b"}
NoId == ""
NoCursor == 0

OpenapiOf(id) ==
  IF id = "a" THEN <<[post |-> TRUE, props |-> <<"p", "q">>]>>
  ELSE IF id = "b" THEN <<[post |-> FALSE, props |-> <<>>]>>
  ELSE IF id = "c" THEN <<[post |-> TRUE, props |-> <<>>]>>
  ELSE <<>>

ValidModel(id) ==
  [present |-> TRUE, endpoint_id |-> id, metadata |-> TRUE, openapi |-> OpenapiOf(id)]
NullModel ==
  [present |-> FALSE, endpoint_id |-> NoId, metadata |-> FALSE, openapi |-> <<>>]
NoIdModel ==
  [present |-> TRUE, endpoint_id |-> NoId, metadata |-> TRUE, openapi |-> <<>>]
NoMetaModel ==
  [present |-> TRUE, endpoint_id |-> "a", metadata |-> FALSE, openapi |-> <<>>]

ValidModels == {ValidModel(id) : id \in Ids}
MalformedModels == {NullModel, NoIdModel, NoMetaModel}
CatalogModels == ValidModels \cup MalformedModels

SeqsUpTo(S, n) == UNION {[1..k -> S] : k \in 0..n}

\* GET /v1/models without expand serves the same records without openapi.
Serve(m, expand) == IF expand THEN m ELSE [m EXCEPT !.openapi = <<>>]

\* The provider's answer to a page request: cursor c asks for page c, no
\* cursor for page 1; page k of n carries next_cursor k+1 and has_more iff k<n.
PageResponse(cursor, expand) ==
  LET k == IF cursor = NoCursor THEN 1 ELSE cursor
  IN [models |-> [j \in 1..Len(pages[k]) |-> Serve(pages[k][j], expand)],
      next_cursor |-> IF k < Len(pages) THEN k + 1 ELSE NoCursor,
      has_more |-> k < Len(pages)]

HttpOutcomes == {"ok", "e400", "error"}


(***************************************************************************)
(* The log of requests and store operations.                               *)
(***************************************************************************)
Event(kind, op, arg, idx, outcome) ==
  [kind |-> kind, op |-> op, arg |-> arg, idx |-> idx, outcome |-> outcome]

CatalogRequest(f, outcome) ==
  Event("catalog", IF f.includeSchemas THEN "expand" ELSE "plain", f.cursor, 0, outcome)

(***************************************************************************)
(* FalApiClient.fetchModels                                                *)
(***************************************************************************)
IdleFetch ==
  [active |-> FALSE, caller |-> "none", includeSchemas |-> FALSE,
   cursor |-> NoCursor, pageCount |-> 0, allModels |-> <<>>]

\* const allModels = []; let cursor = null; let pageCount = 0
NewFetch(caller, includeSchemas) ==
  [active |-> TRUE, caller |-> caller, includeSchemas |-> includeSchemas,
   cursor |-> NoCursor, pageCount |-> 0, allModels |-> <<>>]

\* catch (pageError): the expand flag was on and the message names 400
ShouldRetry(f, outcome) == f.includeSchemas /\ outcome = "e400"

\* return this.fetchModels(false): a new call, from the first page
RetryWithoutSchemasBug(f) == [f EXCEPT !.includeSchemas = FALSE]
RetryWithoutSchemas(f) == NewFetch(f.caller, FALSE)

\* cursor = response.has_more ? response.next_cursor : null
NextCursor(resp) == IF resp.has_more THEN resp.next_cursor ELSE NoCursor

\* if (allModels.length > 0) console.log(..., !!allModels[0].openapi):
\* reading .openapi of a null first record throws a TypeError, which the
\* outer catch turns into 'Failed to fetch models'
FirstModelLogThrows(all) == Len(all) > 0 /\ ~all[1].present


\* syncFalModels, after await falClient.testConnection():
\* if (!isConnected) throw new Error('Failed to connect to FAL API')
AfterConnectBug(isConnected) == "rate"
AfterConnect(isConnected) == IF isConnected THEN "rate" ELSE "thrown"

\* syncFalModels, after await falClient.fetchModels(): a rejection reaches
\* the outer catch, which rethrows it
AfterFetch(fetched) == IF fetched THEN "pricing" ELSE "thrown"

\* fetchModels returns allModels (ok) or throws: control goes back to the
\* caller: a direct call, testConnection (which maps it to true / false for
\* syncFalModels: ret.ok is const isConnected) or syncFalModels itself.
FetchModelsReturn(ok, list) ==
  /\ fm' = IdleFetch
  /\ CASE fm.caller = "test" ->
            /\ pc' = AfterConnect(ok)
            /\ thrown' = IF AfterConnect(ok) = "thrown" THEN "connect" ELSE thrown
            /\ ret' = [ok |-> ok, models |-> <<>>]
            /\ UNCHANGED models
       [] fm.caller = "sync" ->
            /\ pc' = AfterFetch(ok)
            /\ thrown' = IF AfterFetch(ok) = "thrown" THEN "catalog" ELSE thrown
            /\ models' = IF ok THEN list ELSE models
            /\ UNCHANGED ret
       [] OTHER ->
            /\ ret' = [ok |-> ok, models |-> list]
            /\ pc' = "returned"
            /\ UNCHANGED <<thrown, models>>

\* One iteration of the do ... while (cursor) loop: the page request and
\* what follows its answer up to the next await or the return.
PageRequest ==
  /\ fm.active
  /\ \E outcome \in HttpOutcomes :
       /\ outcome # "ok" => faults > 0
       /\ faults' = IF outcome = "ok" THEN faults ELSE faults - 1
       /\ io' = Append(io, CatalogRequest(fm, outcome))
       /\ IF outcome = "ok"
          THEN LET resp == PageResponse(fm.cursor, fm.includeSchemas)
                   all == fm.allModels \o resp.models
                   cur == NextCursor(resp)
               IN IF cur # NoCursor
                  THEN /\ fm' = [fm EXCEPT !.cursor = cur,
                                           !.pageCount = fm.pageCount + 1,
                                           !.allModels = all]
                       /\ UNCHANGED <<ret, pc, thrown, models>>
                  ELSE IF FirstModelLogThrows(all)
                       THEN FetchModelsReturn(FALSE, <<>>)
                       ELSE FetchModelsReturn(TRUE, all)
          ELSE IF ShouldRetry(fm, outcome)
               THEN /\ fm' = RetryWithoutSchemas(fm)
                    /\ UNCHANGED <<ret, pc, thrown, models>>
               ELSE FetchModelsReturn(FALSE, <<>>)
  /\ UNCHANGED <<pages, creditRate, pricingMap, fp>>
  /\ UNCHANGED <<loopVars, storeVars, twinVars, sanVars, callVars>>

\* A direct call of fetchModels(includeSchemas).
FetchModelsCall ==
  /\ pc = "direct"
  /\ \E includeSchemas \in BOOLEAN :
       fm' = NewFetch("direct", includeSchemas)
  /\ pc' = "called"
  /\ UNCHANGED <<srvVars, io, ret, thrown, creditRate, models, pricingMap, fp>>
  /\ UNCHANGED <<loopVars, storeVars, twinVars, sanVars, callVars>>


(***************************************************************************)
(* FalApiClient.fetchPricing                                               *)
(***************************************************************************)
\* The provider's quote for an id: <<>> when it has none.
QuoteOf(id) ==
  IF id = "a"
  THEN <<[endpoint_id |-> "a", unit_price |-> 50, unit |-> "call", currency |-> "USD"]>>
  ELSE IF id = "c"
  THEN <<[endpoint_id |-> "c", unit_price |-> 0, unit |-> "call", currency |-> "USD"]>>
  ELSE <<>>

\* The prices array of the answer to GET /v1/models/pricing for a batch.
PricingResponse(batch) == Flatten([k \in 1..Len(batch) |-> QuoteOf(batch[k])])

PricingOutcomes == {"ok", "noprices", "e429", "e404", "error"}

IdlePricing ==
  [active |-> FALSE, ids |-> <<>>, i |-> 0, retries |-> 0, allPrices |-> <<>>,
   status |-> "none"]

\* const allPrices = []; for (let i = 0; ...) { let retries = 0; ...
NewPricing(endpointIds) ==
  [active |-> TRUE, ids |-> endpointIds, i |-> 0, retries |-> 0,
   allPrices |-> <<>>, status |-> "none"]

\* const batch = endpointIds.slice(i, i + batchSize)
BatchBug(f) == SubSeq(f.ids, f.i + 1, Min(f.i + BatchSize + 1, Len(f.ids)))
Batch(f) == SubSeq(f.ids, f.i + 1, Min(f.i + BatchSize, Len(f.ids)))

\* const waitTime = Math.pow(2, retries) * 1000
WaitTimeBug(retries) == retries * 2000
WaitTime(retries) == (2 ^ retries) * 1000

\* catch (error): what the retry loop does with a failed request, by its
\* message: 429 / 'Rate limit' first, then 404 / 'not found', else rethrow
ErrorClassAbortsOnNotFound(outcome) ==
  IF outcome = "e429" THEN "retry" ELSE "throw"
ErrorClassSkipsOnError(outcome) ==
  IF outcome = "e429" THEN "retry" ELSE "skip"
ErrorClass(outcome) ==
  CASE outcome = "e429" -> "retry"
    [] outcome = "e404" -> "skip"
    [] OTHER -> "throw"

\* await this.sleep(5000)
BatchPause == 5000

\* if (i + batchSize < endpointIds.length): a pause follows the batch
PauseAfterBatchBug(f) == TRUE
PauseAfterBatch(f) == f.i + BatchSize < Len(f.ids)

\* for (let i = 0; i < endpointIds.length; i += batchSize): the loop goes on
MoreBatches(f) == f.i + BatchSize < Len(f.ids)

\* GET /v1/models/pricing?endpoint_id=...: the request of the batch at f.i
PricingEvent(f, outcome) ==
  Event("pricing", "get", [at |-> f.i, ids |-> Batch(f)], f.retries, outcome)

\* for (const pricing of pricingResponse.prices) pricingMap.set(...): the
\* last quote of an id wins
MapOf(prices) ==
  [id \in {prices[k].endpoint_id : k \in DOMAIN prices} |->
     prices[CHOOSE k \in DOMAIN prices :
              /\ prices[k].endpoint_id = id
              /\ \A j \in DOMAIN prices : prices[j].endpoint_id = id => j <= k]]

EmptyMap == MapOf(<<>>)

\* syncFalModels, the inner try / catch around the pricing fetch: a
\* rejection leaves pricingMap as it was created, empty
PricingMapAfterBug(ok, prices) == MapOf(PricingResponse(<<"a", "b">>))
PricingMapAfter(ok, prices) == IF ok THEN MapOf(prices) ELSE EmptyMap

\* syncFalModels after the pricing fetch: on to the model loop either way
AfterPricingBug(ok) == IF ok THEN "loop" ELSE "thrown"
AfterPricing(ok) == "loop"

\* fetchPricing returns {prices: allPrices, ...} or throws: back in
\* syncFalModels, or in the caller of a direct call (which keeps the call's
\* input and what it returned in fp).
PricingReturn(ok, prices) ==
  IF pc \in {"directPricing", "called"}
  THEN /\ fp' = [fp EXCEPT !.active = FALSE,
                           !.status = IF ok THEN "returned" ELSE "threw",
                           !.allPrices = IF ok THEN prices ELSE <<>>]
       /\ pc' = "returned"
       /\ UNCHANGED <<pricingMap, thrown>>
  ELSE /\ fp' = [IdlePricing EXCEPT !.status = IF ok THEN "returned" ELSE "threw"]
       /\ pricingMap' = PricingMapAfter(ok, prices)
       /\ pc' = AfterPricing(ok)
       /\ thrown' = IF AfterPricing(ok) = "thrown" THEN "pricing" ELSE thrown

\* The batch at f.i is over (fetched or skipped): the pause between batches,
\* then the next batch or the return.
BatchDone(f, prices, log) ==
  LET log2 == IF PauseAfterBatch(f)
              THEN Append(log, Event("sleep", "batch", BatchPause, 0, "ok"))
              ELSE log
  IN /\ io' = log2
     /\ IF MoreBatches(f)
        THEN /\ fp' = [f EXCEPT !.i = f.i + BatchSize, !.retries = 0,
                                !.allPrices = prices]
             /\ UNCHANGED <<pricingMap, pc, thrown>>
        ELSE PricingReturn(TRUE, prices)

\* One request of the retry loop of the current batch and what follows its
\* answer up to the next request or the return.
PricingRequest ==
  /\ fp.active
  /\ \E outcome \in PricingOutcomes :
       LET log == Append(io, PricingEvent(fp, outcome))
       IN /\ outcome # "ok" => faults > 0
          /\ faults' = IF outcome = "ok" THEN faults ELSE faults - 1
          /\ CASE outcome = "ok" ->
                    BatchDone(fp, fp.allPrices \o PricingResponse(Batch(fp)), log)
               [] outcome = "noprices" ->
                    /\ io' = log
                    /\ UNCHANGED <<fp, pricingMap, pc, thrown>>
               [] ErrorClass(outcome) = "retry" ->
                    IF fp.retries + 1 <= MaxRetries
                    THEN /\ io' = Append(log, Event("sleep", "backoff",
                                                    WaitTime(fp.retries + 1), 0, "ok"))
                         /\ fp' = [fp EXCEPT !.retries = fp.retries + 1]
                         /\ UNCHANGED <<pricingMap, pc, thrown>>
                    ELSE /\ io' = log
                         /\ PricingReturn(FALSE, <<>>)
               [] ErrorClass(outcome) = "skip" -> BatchDone(fp, fp.allPrices, log)
               [] OTHER ->
                    /\ io' = log
                    /\ PricingReturn(FALSE, <<>>)
  /\ UNCHANGED <<pages, fetchVars, creditRate, models>>
  /\ UNCHANGED <<loopVars, storeVars, twinVars, sanVars, callVars>>


(***************************************************************************)
(* Sanitization.  A string is the sequence of its UTF-16 code units, of    *)
(* which the model tells apart three kinds: "x" a code unit that is no     *)
(* surrogate, "H" a high surrogate (D800-DBFF), "L" a low surrogate        *)
(* (DC00-DFFF).  A value is a tagged tree: t its type, s the code units of *)
(* a string, keys the keys of an object, kids the elements of an array or  *)
(* the values of an object.                                                *)
(***************************************************************************)
Units == {"x", "H", "L"}

Str(s) == [t |-> "string", s |-> s, keys |-> <<>>, kids |-> <<>>]
Null == [t |-> "null", s |-> <<>>, keys |-> <<>>, kids |-> <<>>]
Num == [t |-> "number", s |-> <<>>, keys |-> <<>>, kids |-> <<>>]
Bool == [t |-> "boolean", s |-> <<>>, keys |-> <<>>, kids |-> <<>>]
Arr(kids) == [t |-> "array", s |-> <<>>, keys |-> <<>>, kids |-> kids]
Obj(keys, kids) == [t |-> "object", s |-> <<>>, keys |-> keys, kids |-> kids]

\* /[\uD800-\uDFFF]/g, a pattern without the u flag: it matches every
\* single code unit of the surrogate range, paired or not
MatchesSurrogateRange(u) == u \in {"H", "L"}

\* FalApiClient.sanitizeString: str.replace(/[\uD800-\uDFFF]/g, '')
SanitizeString(s) == SelectSeq(s, LAMBDA u : ~MatchesSurrogateRange(u))

\* FalApiClient.sanitizeObject
RECURSIVE SanitizeObject(_)
SanitizeObject(obj) ==
  CASE obj.t = "string" -> Str(SanitizeString(obj.s))
    [] obj.t = "array" ->
         Arr([k \in DOMAIN obj.kids |-> SanitizeObject(obj.kids[k])])
    [] obj.t = "object" ->
         Obj(obj.keys, [k \in DOMAIN obj.kids |-> SanitizeObject(obj.kids[k])])
    [] OTHER -> obj

\* fal-sync.ts sanitizeString: if (!str) return null, so the empty string
\* becomes null; else str.replace(/[\uD800-\uDFFF]/g, '')
SyncSanitizeString(s) ==
  IF s = <<>> THEN Null
  ELSE Str(SelectSeq(s, LAMBDA u : ~MatchesSurrogateRange(u)))

\* fal-sync.ts sanitizeValue
RECURSIVE SanitizeValue(_)
SanitizeValue(value) ==
  CASE value.t = "string" -> SyncSanitizeString(value.s)
    [] value.t = "array" ->
         Arr([k \in DOMAIN value.kids |-> SanitizeValue(value.kids[k])])
    [] value.t = "object" ->
         Obj(value.keys, [k \in DOMAIN value.kids |-> SanitizeValue(value.kids[k])])
    [] OTHER -> value

\* one more call of a sanitizer, on what its last call returned
Sanitized(by) ==
  LET arg == IF san.out = <<>> THEN san.x ELSE san.out[Len(san.out)]
  IN IF by = "sanitizeObject" THEN SanitizeObject(arg) ELSE SanitizeValue(arg)

SanitizeCall(by) ==
  /\ pc = "sanitize"
  /\ san.by \in {"none", by}
  /\ Len(san.out) < 2
  /\ san' = [san EXCEPT !.by = by, !.out = Append(@, Sanitized(by))]
  /\ UNCHANGED <<srvVars, io, fetchVars, passVars, loopVars, storeVars, twinVars>>
  /\ UNCHANGED callVars

\* this.sanitizeObject(obj) of the client
SanitizeObjectCall == SanitizeCall("sanitizeObject")

\* sanitizeValue(value) of the sync service
SanitizeValueCall == SanitizeCall("sanitizeValue")


(***************************************************************************)
(* syncFalModels: set-up                                                   *)
(***************************************************************************)
NewResult ==
  [modelsAdded |-> 0, modelsUpdated |-> 0, parametersAdded |-> 0,
   pricingUpdated |-> 0, errors |-> <<>>]

NoLoc == [existingModel |-> FALSE, existingPricing |-> FALSE]

\* rates an active credit_pricing_config row may hold
ConfiguredRates == {20}

RateOutcomes == {"row", "norow", "error", "throw"}

\* getActiveCreditRate: the row's cost_per_credit_usd, or the default when
\* the lookup returns an error or no row, or throws
GetActiveCreditRateBug(outcome, rate) == IF outcome = "row" THEN rate ELSE 0
GetActiveCreditRate(outcome, rate) == IF outcome = "row" THEN rate ELSE DefaultRate

\* the two results of a division by 0 (0 / 0 and x / 0 for x > 0); neither
\* is an integer, and Math.ceil and Math.max(1, .) return them as they are
NaN == -1
Infinity == -2

\* calculateCreditCost: Math.max(1, Math.ceil(priceUSD / creditRate))
CalculateCreditCost(priceUSD, rate) ==
  IF rate = 0
  THEN IF priceUSD = 0 THEN NaN ELSE Infinity
  ELSE Max(1, -((-priceUSD) \div rate))

\* a call of calculateCreditCost(priceUSD, creditRate)
CalculateCreditCostCall ==
  /\ pc = "call"
  /\ call.fn = "calculateCreditCost"
  /\ call.out = <<>>
  /\ call' = [call EXCEPT !.out = <<CalculateCreditCost(call.arg[1], call.arg[2])>>]
  /\ UNCHANGED <<srvVars, io, fetchVars, passVars, loopVars, storeVars, twinVars>>
  /\ UNCHANGED <<sanVars, upd>>

(***************************************************************************)
(* detectTaskType.  A string is a sequence of words, a word a pair of a    *)
(* lower-case spelling and whether the string spells it in upper case;     *)
(* the words are the keywords the function looks for and "x", any other    *)
(* piece of text.                                                          *)
(***************************************************************************)
VideoWords == {"video"}
AudioWords == {"audio", "sound", "music", "speech"}
TextWords == {"text", "caption", "llm"}
ImageWords == {"image", "flux", "stable"}
Words ==
  (VideoWords \cup AudioWords \cup TextWords \cup ImageWords \cup {"x"}) \X BOOLEAN

\* modelId.toLowerCase()
ToLowerCase(str) == [k \in DOMAIN str |-> <<str[k][1], FALSE>>]

\* lower.includes(keyword)
Includes(str, keyword) == \E k \in DOMAIN str : str[k] = <<keyword, FALSE>>

IncludesAny(str, keywords) == \E w \in keywords : Includes(str, w)

DetectTaskTypeBug(modelId) ==
  LET lower == ToLowerCase(modelId)
  IN IF IncludesAny(lower, AudioWords) THEN "AUDIO"
     ELSE IF IncludesAny(lower, VideoWords) THEN "VIDEO"
     ELSE IF IncludesAny(lower, TextWords) THEN "TEXT"
     ELSE IF IncludesAny(lower, ImageWords) THEN "IMAGE"
     ELSE "MULTIMODAL"

DetectTaskType(modelId) ==
  LET lower == ToLowerCase(modelId)
  IN IF IncludesAny(lower, VideoWords) THEN "VIDEO"
     ELSE IF IncludesAny(lower, AudioWords) THEN "AUDIO"
     ELSE IF IncludesAny(lower, TextWords) THEN "TEXT"
     ELSE IF IncludesAny(lower, ImageWords) THEN "IMAGE"
     ELSE "MULTIMODAL"

\* model.metadata.category || model.endpoint_id: category is <<>> when the
\* record has none, and the empty string is falsy
CategoryOrId(category, endpoint_id) ==
  IF category # <<>> /\ category[1] # <<>> THEN category[1] ELSE endpoint_id

\* const taskType = detectTaskType(model.metadata.category || model.endpoint_id)
TaskTypeCall ==
  /\ pc = "call"
  /\ call.fn = "taskType"
  /\ call.out = <<>>
  /\ call' = [call EXCEPT !.out =
                <<DetectTaskType(CategoryOrId(call.arg.category, call.arg.endpoint_id))>>]
  /\ UNCHANGED <<srvVars, io, fetchVars, passVars, loopVars, storeVars, twinVars>>
  /\ UNCHANGED <<sanVars, upd>>

(***************************************************************************)
(* estimateCost.  The body of a 200 response either has no estimates       *)
(* field (estimates is <<>>) or maps some ids to an estimate; an estimate  *)
(* either has no cost_per_call (<<>>), or one that is not a number, or a   *)
(* number in thousandths of a dollar.                                      *)
(***************************************************************************)
EstimateOutcomes == {"ok", "error"}

\* what a call returns: a value, or the error it threw
Returned(value) == [threw |-> FALSE, value |-> value]
ThrownError == [threw |-> TRUE, value |-> 0]

\* costPerCall.toFixed(4) throws a TypeError unless costPerCall is a number
ToFixedThrows(estimate) ==
  estimate.cost_per_call = <<>> \/ ~estimate.cost_per_call[1].number

EstimateCostRethrows(modelId, outcome, body) ==
  IF outcome # "ok" \/ body.estimates = <<>> THEN ThrownError
  ELSE IF modelId \notin DOMAIN body.estimates[1] THEN Returned(0)
  ELSE IF ToFixedThrows(body.estimates[1][modelId]) THEN ThrownError
  ELSE Returned(body.estimates[1][modelId].cost_per_call[1].n)

\* estimateCost from the answer to its request on: whatever is thrown
\* inside the try is caught and 0 is returned
EstimateCost(modelId, outcome, body) ==
  IF outcome # "ok" THEN Returned(0)
  ELSE IF body.estimates = <<>> THEN Returned(0)
  ELSE IF modelId \notin DOMAIN body.estimates[1] THEN Returned(0)
  ELSE IF ToFixedThrows(body.estimates[1][modelId]) THEN Returned(0)
  ELSE Returned(body.estimates[1][modelId].cost_per_call[1].n)

\* estimateCost(modelId, callQuantity) up to its await
EstimateCostCall ==
  /\ pc = "call"
  /\ call.fn = "estimateCost"
  /\ pc' = "estimating"
  /\ UNCHANGED <<srvVars, io, fetchVars, thrown, creditRate, models, pricingMap, fp>>
  /\ UNCHANGED <<loopVars, storeVars, twinVars, sanVars, callVars>>

\* the request POST /v1/models/pricing/estimate is answered or fails
EstimateResponse ==
  /\ pc = "estimating"
  /\ \E outcome \in EstimateOutcomes :
       /\ outcome # "ok" => faults > 0
       /\ faults' = IF outcome = "ok" THEN faults ELSE faults - 1
       /\ io' = Append(io, Event("estimate", "post",
                                 <<call.arg.modelId, call.arg.callQuantity>>,
                                 0, outcome))
       /\ call' = [call EXCEPT !.out =
                     <<EstimateCost(call.arg.modelId, outcome, call.body)>>]
  /\ pc' = "returned"
  /\ UNCHANGED <<pages, fetchVars, thrown, creditRate, models, pricingMap, fp>>
  /\ UNCHANGED <<loopVars, storeVars, twinVars, sanVars, upd>>

(***************************************************************************)
(* getFalClient and the module's clientInstance.  A key is a string, ""    *)
(* standing for an argument not passed and for FAL_KEY not set.  A client  *)
(* is the key it was built with and a serial number that tells one         *)
(* instance from another; call holds process.env.FAL_KEY (env),            *)
(* clientInstance (<<>> for null), the number of clients built so far and  *)
(* a log of the calls made.                                                *)
(***************************************************************************)
ApiKeys == {"", "k1", "k2"}

\* new FalApiClient(apiKey): this.apiKey = apiKey || process.env.FAL_KEY ||
\* ''; throws (<<>>) when that is empty
NewFalApiClient(apiKey, env, serial) ==
  LET key == IF apiKey # "" THEN apiKey ELSE env
  IN IF key = "" THEN <<>> ELSE <<[apiKey |-> key, serial |-> serial]>>

GetFalClientRekeys(c, apiKey) ==
  LET stale == c.clientInstance # <<>> /\ apiKey # ""
                 /\ c.clientInstance[1].apiKey # apiKey
      tried == c.clientInstance = <<>> \/ stale
      built == IF tried THEN NewFalApiClient(apiKey, c.env, c.made + 1) ELSE <<>>
      stored == IF tried /\ built # <<>> THEN built ELSE c.clientInstance
  IN [c EXCEPT !.clientInstance = stored,
               !.made = IF built # <<>> THEN @ + 1 ELSE @,
               !.log = Append(@, [apiKey |-> apiKey, env |-> c.env, tried |-> tried,
                                  threw |-> tried /\ built = <<>>,
                                  out |-> IF tried /\ built = <<>> THEN <<>> ELSE stored])]

\* getFalClient(apiKey): if (!clientInstance) clientInstance = new
\* FalApiClient(apiKey); return clientInstance.  When the constructor
\* throws, the assignment does not happen.
GetFalClient(c, apiKey) ==
  LET tried == c.clientInstance = <<>>
      built == IF tried THEN NewFalApiClient(apiKey, c.env, c.made + 1) ELSE <<>>
      stored == IF tried THEN built ELSE c.clientInstance
  IN [c EXCEPT !.clientInstance = stored,
               !.made = IF built # <<>> THEN @ + 1 ELSE @,
               !.log = Append(@, [apiKey |-> apiKey, env |-> c.env, tried |-> tried,
                                  threw |-> stored = <<>>,
                                  out |-> stored])]

\* a call of getFalClient
GetFalClientCall ==
  /\ pc = "call"
  /\ call.fn = "getFalClient"
  /\ Len(call.log) < MaxCalls
  /\ \E apiKey \in ApiKeys : call' = GetFalClient(call, apiKey)
  /\ UNCHANGED <<srvVars, io, fetchVars, passVars, loopVars, storeVars, twinVars>>
  /\ UNCHANGED <<sanVars, upd>>

\* the process sets or unsets FAL_KEY between two calls
SetEnvKey ==
  /\ pc = "call"
  /\ call.fn = "getFalClient"
  /\ Len(call.log) < MaxCalls
  /\ \E key \in {"", "e"} : key # call.env /\ call' = [call EXCEPT !.env = key]
  /\ UNCHANGED <<srvVars, io, fetchVars, passVars, loopVars, storeVars, twinVars>>
  /\ UNCHANGED <<sanVars, upd>>

\* new FalApiClient() and createClient(getSupabaseUrl(), ...) throw when
\* FAL_KEY or the store's settings are missing; then testConnection starts
\* its fetchModels().
SyncStart ==
  /\ pc = "idle"
  /\ \E configured \in BOOLEAN :
       /\ ~configured => faults > 0
       /\ faults' = IF configured THEN faults ELSE faults - 1
       /\ IF configured
          THEN /\ pc' = "connect"
               /\ fm' = NewFetch("test", TRUE)
               /\ UNCHANGED thrown
          ELSE /\ pc' = "thrown"
               /\ thrown' = "config"
               /\ UNCHANGED fm
  /\ result' = NewResult
  /\ UNCHANGED <<pages, io, ret, creditRate, models, pricingMap, fp>>
  /\ UNCHANGED <<i, step, loc, errIdx, storeVars, twinVars, sanVars, callVars>>

\* const creditRate = await getActiveCreditRate(supabase), then
\* fetchModels() starts.  A table without an active row answers "norow".
RateLookup ==
  /\ pc = "rate"
  /\ \E outcome \in RateOutcomes, rate \in ConfiguredRates :
       /\ outcome \notin {"row", "norow"} => faults > 0
       /\ faults' = IF outcome \in {"row", "norow"} THEN faults ELSE faults - 1
       /\ io' = Append(io, Event("rate", "select", 0, 0, outcome))
       /\ creditRate' = GetActiveCreditRate(outcome, rate)
       /\ pc' = "fetch"
       /\ fm' = NewFetch("sync", TRUE)
       /\ UNCHANGED thrown
  /\ UNCHANGED <<pages, ret, models, pricingMap, fp>>
  /\ UNCHANGED <<loopVars, storeVars, twinVars, sanVars, callVars>>

\* const endpointIds = models.map(m => m.endpoint_id) throws a TypeError on
\* a null record, inside the inner try: no pricing request is made then.
MapThrows(ms) == \E k \in DOMAIN ms : ~ms[k].present

EndpointIds(ms) == [k \in DOMAIN ms |-> ms[k].endpoint_id]

\* The inner try up to the first pricing request.  fetchPricing of no ids
\* makes no request and returns no prices.
PricingStart ==
  /\ pc = "pricing"
  /\ IF MapThrows(models)
     THEN /\ fp' = [IdlePricing EXCEPT !.status = "mapThrew"]
          /\ pricingMap' = EmptyMap
          /\ pc' = "loop"
          /\ UNCHANGED thrown
     ELSE IF Len(models) = 0
          THEN PricingReturn(TRUE, <<>>)
          ELSE /\ fp' = NewPricing(EndpointIds(models))
               /\ pc' = "pricingFetch"
               /\ UNCHANGED <<pricingMap, thrown>>
  /\ i' = 1
  /\ step' = "begin"
  /\ UNCHANGED <<srvVars, io, fetchVars, creditRate, models>>
  /\ UNCHANGED <<loc, result, errIdx, storeVars, twinVars, sanVars, callVars>>


(***************************************************************************)
(* syncFalModels: the model loop                                           *)
(***************************************************************************)
\* if (!model || !model.endpoint_id || !model.metadata)
IsInvalidBug(m) == ~m.present \/ m.endpoint_id = NoId
IsInvalid(m) == ~m.present \/ m.endpoint_id = NoId \/ ~m.metadata

\* const pricing = pricingMap.get(fullModelId)
HasPricing(m) == m.endpoint_id \in DOMAIN pricingMap

\* const pricePerCall = pricing?.unit_price || 0
PricePerCall(m) == IF HasPricing(m) THEN pricingMap[m.endpoint_id].unit_price ELSE 0

\* const pricingType = pricePerCall === 0 ? 'free' : 'fixed'
PricingTypeOfBug(pricePerCall) == "fixed"
PricingTypeOf(pricePerCall) == IF pricePerCall = 0 THEN "free" ELSE "fixed"

\* extractInputSchemaFromOpenAPI: null (<<>>) without a POST path
ExtractInputSchemaFromOpenAPI(doc) == IF doc.post THEN <<doc.props>> ELSE <<>>

\* const inputSchema = model.openapi ? extractInputSchemaFromOpenAPI(...) : null
InputSchema(m) ==
  IF m.openapi = <<>> THEN <<>> ELSE ExtractInputSchemaFromOpenAPI(m.openapi[1])

\* parseSchemaToParameters: one parameter per property, uiOrder its position
ParseSchemaToParameters(props) ==
  [k \in 1..Len(props) |-> [name |-> props[k], uiOrder |-> k - 1]]

\* const parameters = inputSchema ? parseSchemaToParameters(inputSchema) : []
Parameters(m) ==
  IF InputSchema(m) = <<>> THEN <<>> ELSE ParseSchemaToParameters(InputSchema(m)[1])

\* const modelData = sanitizeValue({...})
ModelData(m) ==
  [id |-> m.endpoint_id,
   input_schema |-> IF InputSchema(m) = <<>> THEN <<>> ELSE InputSchema(m)[1]]

\* const parameterRecords = parameters.map(...)
ParameterRecords(m) ==
  [k \in 1..Len(Parameters(m)) |->
     [model_id |-> m.endpoint_id, parameter_name |-> Parameters(m)[k].name,
      ui_order |-> Parameters(m)[k].uiOrder]]

\* const pricingData = sanitizeValue({...})
PricingData(m) ==
  [model_id |-> m.endpoint_id,
   price_per_call |-> PricePerCall(m),
   pricing_type |-> PricingTypeOf(PricePerCall(m)),
   credit_cost |-> CalculateCreditCost(PricePerCall(m), creditRate),
   pricing_details |-> IF HasPricing(m)
                       THEN <<pricingMap[m.endpoint_id].unit,
                              pricingMap[m.endpoint_id].currency>>
                       ELSE <<>>]

StoreOutcomes == {"ok", "error", "throw"}

StoreOp(op, outcome) == Event("store", op, 0, i, outcome)

\* the store: rows of a table with a given key
KeysOf(rows) == {r.id : r \in rows}
RowsFor(rows, id) == {k \in DOMAIN rows : rows[k].model_id = id}
WithoutBug(rows, id) == rows
WithoutAll(rows, id) == <<>>
Without(rows, id) == SelectSeq(rows, LAMBDA r : r.model_id # id)

\* const modelId = model?.endpoint_id || 'unknown'
ErrorModel(m) == IF m.present /\ m.endpoint_id # NoId THEN m.endpoint_id ELSE "unknown"

\* the catch of the model loop: one entry, then the next model
CaughtErrorsBug(errors, m, msg) == errors
CaughtErrorsFirst(errors, m, msg) == <<[model |-> ErrorModel(m), error |-> msg]>> \o errors
CaughtErrors(errors, m, msg) == Append(errors, [model |-> ErrorModel(m), error |-> msg])

\* ... and the for loop goes on (the catch does not rethrow)
AfterModelError == "loop"

Catch(msg) ==
  /\ result' = [result EXCEPT !.errors = CaughtErrors(@, models[i], msg)]
  /\ errIdx' = Append(errIdx, i)
  /\ i' = i + 1
  /\ step' = "begin"
  /\ loc' = NoLoc
  /\ pc' = AfterModelError
  /\ thrown' = IF AfterModelError = "thrown" THEN "model" ELSE thrown

\* the validation at the head of the loop body
ModelBegin ==
  /\ pc = "loop" /\ step = "begin" /\ i <= Len(models)
  /\ IF IsInvalid(models[i])
     THEN /\ result' = [result EXCEPT !.errors =
                          Append(@, [model |-> "unknown",
                                     error |-> "Model missing endpoint_id or metadata"])]
          /\ errIdx' = Append(errIdx, i)
          /\ i' = i + 1
          /\ UNCHANGED step
     ELSE /\ step' = "check"
          /\ UNCHANGED <<result, errIdx, i>>
  /\ UNCHANGED <<srvVars, io, fetchVars, passVars, loc, storeVars, twinVars, sanVars, callVars>>

\* after the last model: return result
LoopEnd ==
  /\ pc = "loop" /\ step = "begin" /\ i > Len(models)
  /\ pc' = "done"
  /\ UNCHANGED <<srvVars, io, fetchVars, thrown, creditRate, models, pricingMap, fp>>
  /\ UNCHANGED <<loopVars, storeVars, twinVars, sanVars, callVars>>

\* supabase.from('models').select('id').eq('id', fullModelId).single():
\* checkError is not looked at, data is null on an error
CheckModel ==
  /\ pc = "loop" /\ step = "check"
  /\ \E outcome \in StoreOutcomes :
       /\ outcome # "ok" => faults > 0
       /\ faults' = IF outcome = "ok" THEN faults ELSE faults - 1
       /\ io' = Append(io, StoreOp("models.select", outcome))
       /\ IF outcome = "throw"
          THEN Catch("rejected")
          ELSE /\ loc' = [loc EXCEPT !.existingModel =
                            outcome = "ok" /\ models[i].endpoint_id \in KeysOf(tModels)]
               /\ step' = "upsert"
               /\ UNCHANGED <<i, result, errIdx, pc, thrown>>
  /\ UNCHANGED <<pages, fetchVars, creditRate, models, pricingMap, fp>>
  /\ UNCHANGED <<storeVars, twinVars, sanVars, callVars>>

\* update(modelData).eq('id', ...) or insert({...modelData, created_at}); a
\* returned error is thrown.  An insert of an id the table holds violates
\* the primary key.
UpsertModel ==
  /\ pc = "loop" /\ step = "upsert"
  /\ \E outcome \in StoreOutcomes :
       LET m == models[i]
           op == IF loc.existingModel THEN "models.update" ELSE "models.insert"
           dup == ~loc.existingModel /\ m.endpoint_id \in KeysOf(tModels)
           got == IF outcome = "ok" /\ dup THEN "error" ELSE outcome
       IN /\ outcome # "ok" => faults > 0
          /\ faults' = IF outcome = "ok" THEN faults ELSE faults - 1
          /\ io' = Append(io, StoreOp(op, got))
          /\ IF got = "ok"
             THEN /\ tModels' = {r \in tModels : r.id # m.endpoint_id}
                                  \cup (IF loc.existingModel
                                           /\ m.endpoint_id \notin KeysOf(tModels)
                                        THEN {} ELSE {ModelData(m)})
                  /\ result' = IF loc.existingModel
                               THEN [result EXCEPT !.modelsUpdated = @ + 1]
                               ELSE [result EXCEPT !.modelsAdded = @ + 1]
                  /\ step' = "delete"
                  /\ UNCHANGED <<i, loc, errIdx, pc, thrown>>
             ELSE /\ Catch(IF got = "error" THEN "Unknown error" ELSE "rejected")
                  /\ UNCHANGED tModels
  /\ UNCHANGED <<pages, fetchVars, creditRate, models, pricingMap, fp>>
  /\ UNCHANGED <<tParams, tPricing, twinVars, sanVars, callVars>>


\* await supabase.from('model_parameters').delete().eq('model_id', ...):
\* the returned value is dropped, so a returned error goes unseen
DeleteParams ==
  /\ pc = "loop" /\ step = "delete"
  /\ \E outcome \in StoreOutcomes :
       LET m == models[i]
       IN /\ outcome # "ok" => faults > 0
          /\ faults' = IF outcome = "ok" THEN faults ELSE faults - 1
          /\ io' = Append(io, StoreOp("model_parameters.delete", outcome))
          /\ IF outcome = "throw"
             THEN /\ Catch("rejected")
                  /\ UNCHANGED tParams
             ELSE /\ tParams' = IF outcome = "ok"
                                THEN Without(tParams, m.endpoint_id) ELSE tParams
                  /\ step' = IF Len(Parameters(m)) > 0 THEN "insert" ELSE "selPricing"
                  /\ UNCHANGED <<i, loc, result, errIdx, pc, thrown>>
  /\ UNCHANGED <<pages, fetchVars, creditRate, models, pricingMap, fp>>
  /\ UNCHANGED <<tModels, tPricing, twinVars, sanVars, callVars>>

\* supabase.from('model_parameters').insert(parameterRecords); a returned
\* error is thrown
InsertParams ==
  /\ pc = "loop" /\ step = "insert"
  /\ \E outcome \in StoreOutcomes :
       LET m == models[i]
       IN /\ outcome # "ok" => faults > 0
          /\ faults' = IF outcome = "ok" THEN faults ELSE faults - 1
          /\ io' = Append(io, StoreOp("model_parameters.insert", outcome))
          /\ IF outcome = "ok"
             THEN /\ tParams' = tParams \o ParameterRecords(m)
                  /\ result' = [result EXCEPT
                                  !.parametersAdded = @ + Len(Parameters(m))]
                  /\ step' = "selPricing"
                  /\ UNCHANGED <<i, loc, errIdx, pc, thrown>>
             ELSE /\ Catch(IF outcome = "error" THEN "Unknown error" ELSE "rejected")
                  /\ UNCHANGED tParams
  /\ UNCHANGED <<pages, fetchVars, creditRate, models, pricingMap, fp>>
  /\ UNCHANGED <<tModels, tPricing, twinVars, sanVars, callVars>>

\* supabase.from('model_pricing').select('id').eq('model_id', ...).single():
\* data is the row when exactly one matches, null otherwise
SelectPricing ==
  /\ pc = "loop" /\ step = "selPricing"
  /\ \E outcome \in StoreOutcomes :
       /\ outcome # "ok" => faults > 0
       /\ faults' = IF outcome = "ok" THEN faults ELSE faults - 1
       /\ io' = Append(io, StoreOp("model_pricing.select", outcome))
       /\ IF outcome = "throw"
          THEN Catch("rejected")
          ELSE /\ loc' = [loc EXCEPT !.existingPricing =
                            /\ outcome = "ok"
                            /\ Cardinality(RowsFor(tPricing, models[i].endpoint_id)) = 1]
               /\ step' = "upPricing"
               /\ UNCHANGED <<i, result, errIdx, pc, thrown>>
  /\ UNCHANGED <<pages, fetchVars, creditRate, models, pricingMap, fp>>
  /\ UNCHANGED <<storeVars, twinVars, sanVars, callVars>>

\* result.pricingUpdated++
PricingNotCounted(r) == r
PricingCounted(r) == [r EXCEPT !.pricingUpdated = @ + 1]

\* update(pricingData).eq('model_id', ...) or insert({...pricingData,
\* created_at}); the returned value is dropped; then result.pricingUpdated++
UpsertPricing ==
  /\ pc = "loop" /\ step = "upPricing"
  /\ \E outcome \in StoreOutcomes :
       LET m == models[i]
           op == IF loc.existingPricing THEN "model_pricing.update"
                                        ELSE "model_pricing.insert"
       IN /\ outcome # "ok" => faults > 0
          /\ faults' = IF outcome = "ok" THEN faults ELSE faults - 1
          /\ io' = Append(io, StoreOp(op, outcome))
          /\ IF outcome = "throw"
             THEN /\ Catch("rejected")
                  /\ UNCHANGED tPricing
             ELSE /\ tPricing' =
                       IF outcome # "ok" THEN tPricing
                       ELSE IF loc.existingPricing
                            THEN [k \in DOMAIN tPricing |->
                                    IF tPricing[k].model_id = m.endpoint_id
                                    THEN PricingData(m) ELSE tPricing[k]]
                            ELSE Append(tPricing, PricingData(m))
                  /\ result' = PricingCounted(result)
                  /\ i' = i + 1
                  /\ step' = "begin"
                  /\ loc' = NoLoc
                  /\ UNCHANGED <<errIdx, pc, thrown>>
  /\ UNCHANGED <<pages, fetchVars, creditRate, models, pricingMap, fp>>
  /\ UNCHANGED <<tModels, tParams, twinVars, sanVars, callVars>>

(***************************************************************************)
(* The updateModelParameters script: it reads the ids of the models table, *)
(* fetches the OpenAPI document of each and, when the document yields      *)
(* parameters, replaces the model's parameter rows.  upd holds its         *)
(* position (pc), the rows it read (models), its index into them (k,       *)
(* 1-based) and its three counters.                                        *)
(***************************************************************************)
\* the document fetchModelSchema gets for an id when it gets one
SchemaOf(id) == OpenapiOf(id)[1]

SchemaOutcomes == {"ok", "error"}

\* setTimeout(resolve, 500) after an updated model
UpdatePause == 500

\* let updated = 0; let failed = 0; let skipped = 0; for (const model of models)
NewUpd(rows) ==
  [pc |-> IF rows = <<>> THEN "done" ELSE "fetch", models |-> rows, k |-> 1,
   updated |-> 0, failed |-> 0, skipped |-> 0]

\* the for loop goes to its next model, or ends
NextModel(u) ==
  [u EXCEPT !.k = @ + 1, !.pc = IF u.k + 1 > Len(u.models) THEN "done" ELSE "fetch"]

\* skipped++; continue
SkipUncounted(u) == NextModel(u)
Skip(u) == NextModel([u EXCEPT !.skipped = @ + 1])

\* failed++ in the catch of the loop body
Fail(u) == NextModel([u EXCEPT !.failed = @ + 1])

UpdOp(op, outcome) == Event("store", op, 0, upd.k, outcome)

\* supabase.from('models').select('id, display_name'), a returned error
\* being thrown, then new FalApiClient(), which throws without FAL_KEY
UpdStart ==
  /\ pc = "script"
  /\ upd.pc = "start"
  /\ \E outcome \in StoreOutcomes, configured \in BOOLEAN :
       /\ (outcome # "ok" \/ ~configured) => faults > 0
       /\ faults' = IF outcome = "ok" /\ configured THEN faults ELSE faults - 1
       /\ outcome # "ok" => configured
       /\ io' = Append(io, Event("store", "models.select", 0, 0, outcome))
       /\ upd' = IF outcome = "ok" /\ configured
                 THEN NewUpd(upd.models)
                 ELSE [upd EXCEPT !.pc = "thrown"]
  /\ UNCHANGED <<pages, fetchVars, passVars, loopVars, storeVars, twinVars>>
  /\ UNCHANGED <<sanVars, call>>

\* openapi = await client.fetchModelSchema(model.id), then the two checks
\* that skip the model
UpdFetchSchema ==
  /\ pc = "script"
  /\ upd.pc = "fetch"
  /\ \E outcome \in SchemaOutcomes :
       LET id == upd.models[upd.k]
           inputSchema == ExtractInputSchemaFromOpenAPI(SchemaOf(id))
       IN /\ outcome # "ok" => faults > 0
          /\ faults' = IF outcome = "ok" THEN faults ELSE faults - 1
          /\ io' = Append(io, Event("schema", "get", id, upd.k, outcome))
          /\ upd' = IF outcome # "ok" THEN Skip(upd)
                    ELSE IF inputSchema = <<>> THEN Skip(upd)
                    ELSE IF Len(ParseSchemaToParameters(inputSchema[1])) = 0
                         THEN Skip(upd)
                    ELSE [upd EXCEPT !.pc = "delete"]
  /\ UNCHANGED <<pages, fetchVars, passVars, loopVars, storeVars, twinVars>>
  /\ UNCHANGED <<sanVars, call>>

\* await supabase.from('model_parameters').delete().eq('model_id', model.id):
\* the returned value is dropped
UpdDelete ==
  /\ pc = "script"
  /\ upd.pc = "delete"
  /\ \E outcome \in StoreOutcomes :
       /\ outcome # "ok" => faults > 0
       /\ faults' = IF outcome = "ok" THEN faults ELSE faults - 1
       /\ io' = Append(io, UpdOp("model_parameters.delete", outcome))
       /\ tParams' = IF outcome = "ok"
                     THEN Without(tParams, upd.models[upd.k]) ELSE tParams
       /\ upd' = IF outcome = "throw" THEN Fail(upd) ELSE [upd EXCEPT !.pc = "insert"]
  /\ UNCHANGED <<pages, fetchVars, passVars, loopVars, tModels, tPricing, twinVars>>
  /\ UNCHANGED <<sanVars, call>>

\* supabase.from('model_parameters').insert(parameterRecords), a returned
\* error being thrown; then updated++ and the pause
UpdInsert ==
  /\ pc = "script"
  /\ upd.pc = "insert"
  /\ \E outcome \in StoreOutcomes :
       LET m == ValidModel(upd.models[upd.k])
           log == Append(io, UpdOp("model_parameters.insert", outcome))
       IN /\ outcome # "ok" => faults > 0
          /\ faults' = IF outcome = "ok" THEN faults ELSE faults - 1
          /\ IF outcome = "ok"
             THEN /\ tParams' = tParams \o ParameterRecords(m)
                  /\ io' = Append(log, Event("sleep", "update", UpdatePause, 0, "ok"))
                  /\ upd' = NextModel([upd EXCEPT !.updated = @ + 1])
             ELSE /\ io' = log
                  /\ upd' = Fail(upd)
                  /\ UNCHANGED tParams
  /\ UNCHANGED <<pages, fetchVars, passVars, loopVars, tModels, tPricing, twinVars>>
  /\ UNCHANGED <<sanVars, call>>

(***************************************************************************)
(* Specifications                                                          *)
(***************************************************************************)
\* limit: '100': the provider serves the catalog in pages of 100 records
Paginated(catalog) ==
  [k \in 1..Max(1, (Len(catalog) + PageLimit - 1) \div PageLimit) |->
     SubSeq(catalog, (k - 1) * PageLimit + 1, Min(k * PageLimit, Len(catalog)))]

Catalog == Flatten(pages)

NoSan == [x |-> Null, by |-> "none", out |-> <<>>]

\* no function is being called; out is <<>> until the call returns
NoCall == [fn |-> "none", arg |-> <<>>, out |-> <<>>]

\* the script is not running
NoUpd ==
  [pc |-> "off", models |-> <<>>, k |-> 0, updated |-> 0, failed |-> 0, skipped |-> 0]

NoFirst ==
  [done |-> FALSE, catalog |-> <<>>, pc |-> "idle", tModels |-> {},
   tParams |-> <<>>, tPricing |-> <<>>]

InitCommon ==
  /\ io = <<>>
  /\ fm = IdleFetch
  /\ ret = [ok |-> FALSE, models |-> <<>>]
  /\ thrown = ""
  /\ creditRate = DefaultRate
  /\ models = <<>>
  /\ pricingMap = EmptyMap
  /\ fp = IdlePricing
  /\ i = 1
  /\ step = "begin"
  /\ loc = NoLoc
  /\ result = NewResult
  /\ errIdx = <<>>
  /\ tModels = {}
  /\ tParams = <<>>
  /\ tPricing = <<>>
  /\ first = NoFirst

\* one sync pass over any catalog, from an empty store
Init ==
  /\ InitCommon
  /\ pages \in {Paginated(c) : c \in SeqsUpTo(CatalogModels, MaxModels)}
  /\ faults = MaxFaults
  /\ pc = "idle"
  /\ runsLeft = 0
  /\ san = NoSan
  /\ call = NoCall
  /\ upd = NoUpd

Next ==
  \/ SyncStart
  \/ PageRequest
  \/ RateLookup
  \/ PricingStart
  \/ PricingRequest
  \/ ModelBegin
  \/ CheckModel
  \/ UpsertModel
  \/ DeleteParams
  \/ InsertParams
  \/ SelectPricing
  \/ UpsertPricing
  \/ LoopEnd

Spec == Init /\ [][Next]_vars


(***************************************************************************)
(* Direct calls of fetchModels over any sequence of pages.                 *)
(***************************************************************************)
MaxFetchFaults == 2

FetchModelsInputs == {ValidModel("a"), ValidModel("b"), NullModel}

InitFetch ==
  /\ InitCommon
  /\ pages \in {ps \in SeqsUpTo(SeqsUpTo(FetchModelsInputs, MaxPageLen), MaxPages) :
                  Len(ps) >= 1}
  /\ faults = MaxFetchFaults
  /\ pc = "direct"
  /\ runsLeft = 0
  /\ san = NoSan
  /\ call = NoCall
  /\ upd = NoUpd

NextFetch ==
  \/ FetchModelsCall
  \/ PageRequest

SpecFetch == InitFetch /\ [][NextFetch]_vars

(***************************************************************************)
(* Direct calls of fetchPricing over id lists of up to MaxBatches batches  *)
(* and one id more, of lengths around the multiples of the batch size.     *)
(***************************************************************************)
MaxBatches == 2
MaxPricingFaults == 4

\* an id list of length n: a, b, a, b, ...
IdList(n) == [k \in 1..n |-> IF k % 2 = 1 THEN "a" ELSE "b"]

PricingLengths ==
  {n \in 0..(MaxBatches * BatchSize + 1) : n % BatchSize \in {0, 1, BatchSize - 1}}

\* A direct call of fetchPricing(endpointIds): of no ids it makes no
\* request and returns no prices.
FetchPricingCall ==
  /\ pc = "directPricing"
  /\ \E n \in PricingLengths :
       IF n = 0
       THEN /\ fp' = [NewPricing(IdList(n)) EXCEPT !.active = FALSE,
                                                   !.status = "returned"]
            /\ pc' = "returned"
       ELSE /\ fp' = NewPricing(IdList(n))
            /\ pc' = "called"
  /\ UNCHANGED <<srvVars, io, fetchVars, thrown, creditRate, models, pricingMap>>
  /\ UNCHANGED <<loopVars, storeVars, twinVars, sanVars, callVars>>

InitPricing ==
  /\ InitCommon
  /\ pages = <<<<>>>>
  /\ faults = MaxPricingFaults
  /\ pc = "directPricing"
  /\ runsLeft = 0
  /\ san = NoSan
  /\ call = NoCall
  /\ upd = NoUpd

NextPricing ==
  \/ FetchPricingCall
  \/ PricingRequest

SpecPricing == InitPricing /\ [][NextPricing]_vars

(***************************************************************************)
(* Calls of the two sanitizers on value trees: strings of up to MaxStrLen  *)
(* code units, null, a number, a boolean, arrays and objects of one of     *)
(* these alone or followed by a string or a number, and an array or an     *)
(* object around one such array or object.                                 *)
(***************************************************************************)
MaxStrLen == 3

Leaves == {Str(s) : s \in SeqsUpTo(Units, MaxStrLen)} \cup {Null, Num, Bool}

FlatTrees ==
  {Arr(<<>>), Obj(<<>>, <<>>)}
    \cup {Arr(<<a>>) : a \in Leaves}
    \cup {Obj(<<"k">>, <<a>>) : a \in Leaves}
    \cup {Arr(<<a, b>>) : a \in Leaves, b \in {Str(<<"L">>), Num}}
    \cup {Obj(<<"k", "l">>, <<a, b>>) : a \in Leaves, b \in {Str(<<"L">>), Num}}

ValueTrees ==
  Leaves \cup FlatTrees
    \cup {Arr(<<c>>) : c \in FlatTrees}
    \cup {Obj(<<"k">>, <<c>>) : c \in FlatTrees}

InitSanitize ==
  /\ InitCommon
  /\ pages = <<<<>>>>
  /\ faults = 0
  /\ pc = "sanitize"
  /\ runsLeft = 0
  /\ san \in {[x |-> x, by |-> "none", out |-> <<>>] : x \in ValueTrees}
  /\ call = NoCall
  /\ upd = NoUpd

NextSanitize ==
  \/ SanitizeObjectCall
  \/ SanitizeValueCall

SpecSanitize == InitSanitize /\ [][NextSanitize]_vars

(***************************************************************************)
(* Twin passes: a pass, then a second pass from the same (empty) store     *)
(* over a catalog that differs from the first in one record, malformed in  *)
(* one and valid in the other; the provider and the store answer alike (no *)
(* failure is injected).                                                   *)
(***************************************************************************)
DiffersInOneRecord(c1, c2) ==
  /\ Len(c1) = Len(c2)
  /\ \E k \in DOMAIN c1 :
       /\ \/ c1[k] \in ValidModels /\ c2[k] \in MalformedModels
          \/ c1[k] \in MalformedModels /\ c2[k] \in ValidModels
       /\ \A j \in DOMAIN c1 : j # k => c1[j] = c2[j]

SecondRun ==
  /\ pc \in {"done", "thrown"}
  /\ runsLeft > 0
  /\ runsLeft' = runsLeft - 1
  /\ first' = [done |-> TRUE, catalog |-> Catalog, pc |-> pc, tModels |-> tModels,
               tParams |-> tParams, tPricing |-> tPricing]
  /\ \E c \in SeqsUpTo(CatalogModels, MaxModels) :
       /\ DiffersInOneRecord(Catalog, c)
       /\ pages' = Paginated(c)
  /\ io' = <<>>
  /\ fm' = IdleFetch
  /\ ret' = [ok |-> FALSE, models |-> <<>>]
  /\ pc' = "idle"
  /\ thrown' = ""
  /\ creditRate' = DefaultRate
  /\ models' = <<>>
  /\ pricingMap' = EmptyMap
  /\ fp' = IdlePricing
  /\ i' = 1
  /\ step' = "begin"
  /\ loc' = NoLoc
  /\ result' = NewResult
  /\ errIdx' = <<>>
  /\ tModels' = {}
  /\ tParams' = <<>>
  /\ tPricing' = <<>>
  /\ UNCHANGED <<faults, san, callVars>>

InitTwin ==
  /\ InitCommon
  /\ pages \in {Paginated(c) : c \in SeqsUpTo(CatalogModels, MaxModels)}
  /\ faults = 0
  /\ pc = "idle"
  /\ runsLeft = 1
  /\ san = NoSan
  /\ call = NoCall
  /\ upd = NoUpd

NextTwin ==
  \/ Next
  \/ SecondRun

SpecTwin == InitTwin /\ [][NextTwin]_vars


(***************************************************************************)
(* Passes in succession: a pass, then further passes that find the store   *)
(* as the pass before left it, over the same catalog or over the catalog   *)
(* without its last record (a model the provider has withdrawn).           *)
(***************************************************************************)
MaxRepeatModels == 2
MaxRepeatFaults == 1
MaxPasses == 2

RepeatCatalogs == SeqsUpTo(ValidModels \cup {NoIdModel, NullModel}, MaxRepeatModels)

\* the catalogs the provider may serve after having served c
CatalogsAfter(c) == {c} \cup (IF c = <<>> THEN {} ELSE {SubSeq(c, 1, Len(c) - 1)})

\* syncFalModels is called again
NextPass ==
  /\ pc \in {"done", "thrown"}
  /\ runsLeft > 0
  /\ runsLeft' = runsLeft - 1
  /\ first' = [done |-> TRUE, catalog |-> Catalog, pc |-> pc, tModels |-> tModels,
               tParams |-> tParams, tPricing |-> tPricing]
  /\ \E c \in CatalogsAfter(Catalog) : pages' = Paginated(c)
  /\ io' = <<>>
  /\ fm' = IdleFetch
  /\ ret' = [ok |-> FALSE, models |-> <<>>]
  /\ pc' = "idle"
  /\ thrown' = ""
  /\ creditRate' = DefaultRate
  /\ models' = <<>>
  /\ pricingMap' = EmptyMap
  /\ fp' = IdlePricing
  /\ i' = 1
  /\ step' = "begin"
  /\ loc' = NoLoc
  /\ result' = NewResult
  /\ errIdx' = <<>>
  /\ UNCHANGED <<faults, storeVars, san, callVars>>

InitRepeat ==
  /\ InitCommon
  /\ pages \in {Paginated(c) : c \in RepeatCatalogs}
  /\ faults = MaxRepeatFaults
  /\ pc = "idle"
  /\ runsLeft = MaxPasses - 1
  /\ san = NoSan
  /\ call = NoCall
  /\ upd = NoUpd

NextRepeat ==
  \/ Next
  \/ NextPass

SpecRepeat == InitRepeat /\ [][NextRepeat]_vars


(***************************************************************************)
(* Properties                                                              *)
(***************************************************************************)
Range(f) == {f[k] : k \in DOMAIN f}

RECURSIVE SumOver(_, _)
SumOver(f, S) ==
  IF S = {} THEN 0
  ELSE LET k == CHOOSE x \in S : TRUE IN f[k] + SumOver(f, S \ {k})

StoreEvents == {n \in DOMAIN io : io[n].kind = "store"}

\* store operations whose failure the code turns into an exception: every
\* rejected call, and the returned errors the code throws itself
ThrownInModel(e) ==
  /\ e.kind = "store"
  /\ \/ e.outcome = "throw"
     \/ /\ e.outcome = "error"
        /\ e.op \in {"models.update", "models.insert", "model_parameters.insert"}

WriteOps ==
  {"models.update", "models.insert", "model_parameters.delete",
   "model_parameters.insert", "model_pricing.update", "model_pricing.insert"}

FailedWrite(e) ==
  e.kind = "store" /\ e.op \in WriteOps /\ e.outcome \in {"error", "throw"}

\* the record at position k was taken up by the loop: skipped as invalid, or
\* its reconciliation reached the store
TakenUp(k) == IsInvalid(models[k]) \/ \E n \in StoreEvents : io[n].idx = k

ErrorEntriesOf(k) == {e \in DOMAIN errIdx : errIdx[e] = k}

\* C1: an exception thrown while a model is reconciled is caught: exactly
\* one entry {model: its endpoint_id, error} is appended to result.errors,
\* the pass does not throw, and when it returns every later model has been
\* taken up.
C1_ModelErrorCaught ==
  /\ Len(result.errors) = Len(errIdx)
  /\ \A n \in DOMAIN io :
       ThrownInModel(io[n]) =>
         LET k == io[n].idx
         IN /\ Cardinality(ErrorEntriesOf(k)) = 1
            /\ \A e \in ErrorEntriesOf(k) :
                 result.errors[e].model = models[k].endpoint_id
            /\ pc \in {"loop", "done"}
            /\ thrown = ""
            /\ pc = "loop" => i > k
            /\ pc = "done" => \A j \in (k + 1)..Len(models) : TakenUp(j)

\* C1 witness: the first model threw, a later model got its pricing row,
\* and the pass returned.
C1_Witness ==
  /\ pc = "done"
  /\ \E n \in DOMAIN io :
       /\ ThrownInModel(io[n])
       /\ \E n2 \in DOMAIN io :
            /\ io[n2].idx > io[n].idx
            /\ io[n2].op = "model_pricing.insert"
            /\ io[n2].outcome = "ok"

\* C2: at the end of a pass the counters reflect only the models reconciled
\* without an error entry.
C2_CountersOnlySuccesses ==
  pc = "done" =>
    LET good == DOMAIN models \ Range(errIdx)
        nParams == [k \in DOMAIN models |-> Len(Parameters(models[k]))]
    IN /\ result.modelsAdded + result.modelsUpdated = Cardinality(good)
       /\ result.pricingUpdated = Cardinality(good)
       /\ result.parametersAdded = SumOver(nParams, good)

\* C3: every failed store write of a model's reconciliation produces an
\* error entry for that model, and the pass goes on.
C3_FailedWriteRecorded ==
  \A n \in DOMAIN io :
    FailedWrite(io[n]) => ErrorEntriesOf(io[n].idx) # {} /\ pc # "thrown"


\* the rows a store holds for an id
ModelRowsOf(rows, id) == {r \in rows : r.id = id}
RowsOf(rows, id) == SelectSeq(rows, LAMBDA r : r.model_id = id)

\* the ids of the record in which the two catalogs differ
DifferingIds(c1, c2) ==
  {c1[k].endpoint_id : k \in {j \in DOMAIN c1 : c1[j] # c2[j]}}
    \cup {c2[k].endpoint_id : k \in {j \in DOMAIN c2 : c1[j] # c2[j]}}

\* C4: errors local to one model never escalate: of two passes over
\* catalogs that differ only in one record being malformed instead of
\* valid, with the same answers of the provider and the store, both leave
\* the same model row, parameter rows and pricing row for every other model.
C4_MalformedRecordStaysLocal ==
  (first.done /\ pc \in {"done", "thrown"}) =>
    \A id \in Ids \ DifferingIds(first.catalog, Catalog) :
      /\ ModelRowsOf(first.tModels, id) = ModelRowsOf(tModels, id)
      /\ RowsOf(first.tParams, id) = RowsOf(tParams, id)
      /\ RowsOf(first.tPricing, id) = RowsOf(tPricing, id)

\* C5: when testConnection returns false the pass throws, and up to then
\* it has read or written no table, looked up no credit rate and requested
\* no pricing: the catalog requests of the check are all it has issued.
C5_ConnectFailureIsFatal ==
  (pc \notin {"idle", "connect"} /\ thrown # "config" /\ ~ret.ok) =>
    /\ pc = "thrown"
    /\ thrown = "connect"
    /\ \A n \in DOMAIN io : io[n].kind = "catalog"
    /\ result = NewResult
    /\ tModels = {} /\ tParams = <<>> /\ tPricing = <<>>

\* C5 witness: the connectivity check failed on a request and the pass threw.
C5_Witness ==
  /\ pc = "thrown"
  /\ thrown = "connect"
  /\ ~ret.ok
  /\ \E n \in DOMAIN io : io[n].outcome # "ok"

C7_PricingFailureNotFatal ==
  fp.status = "threw" =>
    /\ pc \in {"loop", "done"}
    /\ thrown = ""
    /\ pricingMap = EmptyMap
    /\ \A k \in DOMAIN tPricing :
         /\ tPricing[k].price_per_call = 0
         /\ tPricing[k].pricing_type = "free"
         /\ tPricing[k].credit_cost = 1
         /\ tPricing[k].pricing_details = <<>>
    /\ pc = "done" => \A k \in DOMAIN models : TakenUp(k)

\* C7 witness: the pricing fetch threw and the pass wrote the pricing row
\* of a model the provider quotes a price for.
C7_Witness ==
  /\ fp.status = "threw"
  /\ pc = "done"
  /\ \E k \in DOMAIN tPricing : QuoteOf(tPricing[k].model_id) # <<>>

RateEvents == {n \in DOMAIN io : io[n].kind = "rate"}

\* C8: when the credit-rate lookup returns an error or no row, or throws,
\* the rate is the default 0.025 and the pass goes on to the catalog fetch.
C8_RateFallback ==
  \A n \in RateEvents :
    io[n].outcome # "row" =>
      /\ creditRate = 25
      /\ pc # "rate"
      /\ thrown \in {"", "catalog"}
      /\ pc = "fetch" => fm.active /\ fm.caller = "sync"
      /\ n < Len(io) => io[n + 1].kind = "catalog"
      /\ \A k \in DOMAIN tPricing :
           tPricing[k].credit_cost =
             CalculateCreditCost(tPricing[k].price_per_call, 25)

\* C8 witness: the lookup threw, and the pass priced a model at the default
\* rate: 0.05 USD at 0.025 USD per credit is 2 credits.
C8_Witness ==
  /\ pc = "done"
  /\ \E n \in RateEvents : io[n].outcome = "throw"
  /\ \E k \in DOMAIN tPricing : tPricing[k].credit_cost = 2


\* the catalog as fetchModels returns it for a value of the expand flag
Served(expand) == [j \in 1..Len(Catalog) |-> Serve(Catalog[j], expand)]

\* C9: over pages that end with has_more = false and with no request
\* failing, fetchModels requests each page once and in order, the first
\* without cursor and each later one with the previous page's next_cursor,
\* stops after the last page and returns the pages' models in page order.
C9_FetchReturnsAllPages ==
  (\A n \in DOMAIN io : io[n].outcome = "ok") =>
    /\ Len(io) <= Len(pages)
    /\ \A n \in DOMAIN io :
         io[n].arg = IF n = 1 THEN NoCursor
                     ELSE PageResponse(io[n - 1].arg, TRUE).next_cursor
    /\ pc = "returned" =>
         /\ ret.ok
         /\ Len(io) = Len(pages)
         /\ ret.models = Served(io[1].op = "expand")

Rejected400 == {n \in DOMAIN io : io[n].op = "expand" /\ io[n].outcome = "e400"}

\* C10: with the expand flag on, a page request rejected with 400 makes
\* fetchModels start over once with the flag off: the next request asks for
\* the first page without cursor, no later request carries the flag, what
\* is returned is the catalog as served without the flag, and a request
\* that fails after the restart ends the call with that failure.
C10_RetryWithoutSchemas ==
  \A n \in Rejected400 :
    /\ Cardinality(Rejected400) = 1
    /\ \A m \in 1..(n - 1) : io[m].op = "expand" /\ io[m].outcome = "ok"
    /\ n < Len(io) => io[n + 1].arg = NoCursor
    /\ \A m \in (n + 1)..Len(io) :
         /\ io[m].op = "plain"
         /\ io[m].outcome # "ok" => m = Len(io) /\ pc = "returned" /\ ~ret.ok
    /\ (pc = "returned" /\ ret.ok) => ret.models = Served(FALSE)
    /\ pc = "called" => fm.active /\ ~fm.includeSchemas

\* C10 witness: the second page was rejected with 400 after a first page
\* that held a model, and the call returned the catalog.
C10_Witness ==
  /\ pc = "returned"
  /\ ret.ok
  /\ Len(ret.models) >= 2
  /\ \E n \in Rejected400 : n = 2 /\ Len(pages[1]) > 0


(***************************************************************************)
(* Properties of fetchPricing (direct calls)                               *)
(***************************************************************************)
PricingEvents == {n \in DOMAIN io : io[n].kind = "pricing"}
BatchSleeps == {n \in DOMAIN io : io[n].kind = "sleep" /\ io[n].op = "batch"}

\* ceil(n / 50), spelled out
CeilDiv50(n) == IF n % 50 = 0 THEN n \div 50 ELSE n \div 50 + 1

\* the requests of the batch that starts at offset at, up to position n
RateLimitedUpTo(at, n) ==
  {m \in PricingEvents : m <= n /\ io[m].arg.at = at /\ io[m].outcome = "e429"}

\* C11: the k-th rate-limit signal of a batch is followed by a wait of 2s,
\* 4s, 8s for k = 1, 2, 3 and then by the next request of the same batch;
\* the 4th makes fetchPricing fail; the count starts again with every batch.
C11_BackoffSchedule ==
  \A n \in PricingEvents :
    io[n].outcome = "e429" =>
      LET k == Cardinality(RateLimitedUpTo(io[n].arg.at, n))
      IN /\ k <= 4
         /\ k <= 3 =>
              /\ n < Len(io)
              /\ io[n + 1].kind = "sleep" /\ io[n + 1].op = "backoff"
              /\ io[n + 1].arg = <<2000, 4000, 8000>>[k]
              /\ n + 1 < Len(io) =>
                   io[n + 2].kind = "pricing" /\ io[n + 2].arg = io[n].arg
              /\ n + 1 = Len(io) => fp.active
         /\ k = 4 => n = Len(io) /\ pc = "returned" /\ fp.status = "threw"

\* C11 witness: the second batch was rate-limited four times, with waits
\* of 2s, 4s and 8s in between, and the call failed.
C11_Witness ==
  /\ Cardinality(RateLimitedUpTo(50, Len(io))) = 4
  /\ fp.status = "threw"
  /\ \E n \in DOMAIN io :
       /\ n + 4 <= Len(io)
       /\ io[n].kind = "sleep" /\ io[n].arg = 2000
       /\ io[n + 2].kind = "sleep" /\ io[n + 2].arg = 4000
       /\ io[n + 4].kind = "sleep" /\ io[n + 4].arg = 8000

RECURSIVE IdsSent(_)
IdsSent(log) ==
  IF log = <<>> THEN <<>>
  ELSE (IF Head(log).kind = "pricing" THEN Head(log).arg.ids ELSE <<>>)
         \o IdsSent(Tail(log))

\* C12: with every request answered, fetchPricing of N ids issues
\* ceil(N / 50) requests of at most 50 ids each, the batches being the
\* consecutive slices of the input; of no ids it issues none and returns
\* no prices.
C12_Batching ==
  (pc = "returned" /\ \A n \in PricingEvents : io[n].outcome = "ok") =>
    /\ fp.status = "returned"
    /\ Cardinality(PricingEvents) = CeilDiv50(Len(fp.ids))
    /\ \A n \in PricingEvents : Len(io[n].arg.ids) \in 1..50
    /\ IdsSent(io) = fp.ids
    /\ Len(fp.ids) = 0 => io = <<>> /\ fp.allPrices = <<>>

\* C12 witness: 101 ids were fetched in three requests, the last of one id.
C12_Witness ==
  /\ pc = "returned"
  /\ Len(fp.ids) = 101
  /\ Cardinality(PricingEvents) = 3
  /\ \A n \in PricingEvents : io[n].outcome = "ok"
  /\ \E n \in PricingEvents : Len(io[n].arg.ids) = 1

\* the quotes of the batches that were answered, in request order
RECURSIVE QuotesFetched(_)
QuotesFetched(log) ==
  IF log = <<>> THEN <<>>
  ELSE (IF Head(log).kind = "pricing" /\ Head(log).outcome = "ok"
        THEN PricingResponse(Head(log).arg.ids) ELSE <<>>)
         \o QuotesFetched(Tail(log))

NotFound == {n \in PricingEvents : io[n].outcome = "e404"}

\* the offsets of the batches of an id list
Offsets(ids) == {at \in 0..Len(ids) : at % 50 = 0 /\ at < Len(ids)}

\* C13: a batch answered with not-found is not requested again and does
\* not end the call: the next request, if any, is for the next batch, a
\* call that returns has requested every batch, and what it returns are the
\* quotes of the batches that were answered, in batch order.
C13_NotFoundSkipsBatch ==
  /\ \A n \in NotFound :
       /\ \A m \in PricingEvents : m > n => io[m].arg.at >= io[n].arg.at + 50
       /\ (pc = "returned" /\ n = Len(io)) => fp.status = "returned"
       /\ (pc = "called" /\ Len(io) <= n + 1) => fp.active /\ fp.i = io[n].arg.at + 50
  /\ (pc = "returned" /\ fp.status = "returned") =>
       /\ \A at \in Offsets(fp.ids) : \E n \in PricingEvents : io[n].arg.at = at
       /\ fp.allPrices = QuotesFetched(io)

\* C13 witness: the first of three batches was not found, the others were
\* answered, and the call returned their quotes.
C13_Witness ==
  /\ pc = "returned" /\ fp.status = "returned"
  /\ Len(fp.ids) = 101
  /\ \E n \in NotFound : io[n].arg.at = 0
  /\ Len(fp.allPrices) > 0
  /\ Cardinality(PricingEvents) = 3

OtherErrors == {n \in PricingEvents : io[n].outcome = "error"}

\* C14: an error that is neither rate-limit nor not-found ends the call at
\* once: it is the last thing the call does (no retry, no further batch,
\* no pause), and the call throws, handing no price to its caller.
C14_OtherErrorPropagates ==
  \A n \in OtherErrors :
    /\ n = Len(io)
    /\ pc = "returned"
    /\ ~fp.active
    /\ fp.status = "threw"
    /\ fp.allPrices = <<>>

\* C14 witness: the second of three batches failed after the first had
\* brought quotes.
C14_Witness ==
  /\ \E n \in OtherErrors : io[n].arg.at = 50 /\ Len(fp.ids) = 101
  /\ \E n \in PricingEvents : io[n].outcome = "ok" /\ io[n].arg.at = 0

\* the last request of the batch at offset at
LastRequestOf(at) ==
  CHOOSE n \in PricingEvents :
    /\ io[n].arg.at = at
    /\ \A m \in PricingEvents : io[m].arg.at = at => m <= n

\* C15: in a call that completes, a pause of 5s follows every batch but
\* the last, whether the batch was fetched, fetched after retries or
\* skipped: there are ceil(N / 50) - 1 pauses, each right after the last
\* request of its batch and before the first of the next, none at the end.
C15_PauseBetweenBatches ==
  /\ \A n \in BatchSleeps :
       /\ io[n].arg = 5000
       /\ n > 1 /\ io[n - 1].kind = "pricing" /\ io[n - 1].outcome \in {"ok", "e404"}
       /\ \A m \in PricingEvents :
            (m < n <=> io[m].arg.at <= io[n - 1].arg.at)
  /\ \A n \in PricingEvents :
       ~(n > 1 /\ io[n - 1].kind = "pricing" /\ io[n - 1].arg.at # io[n].arg.at)
  /\ (pc = "returned" /\ fp.status = "returned") =>
       /\ Cardinality(BatchSleeps) = Max(0, CeilDiv50(Len(fp.ids)) - 1)
       /\ io # <<>> => io[Len(io)].kind = "pricing"
       /\ \A at \in Offsets(fp.ids) :
            at + 50 < Len(fp.ids) => io[LastRequestOf(at) + 1].kind = "sleep"
                                      /\ io[LastRequestOf(at) + 1].op = "batch"

\* C15 witness: three batches, fetched after a retry, skipped and fetched,
\* with two pauses.
C15_Witness ==
  /\ pc = "returned" /\ fp.status = "returned"
  /\ Cardinality(BatchSleeps) = 2
  /\ \E n \in PricingEvents : io[n].outcome = "e429"
  /\ \E n \in PricingEvents : io[n].outcome = "e404"


(***************************************************************************)
(* Properties of the sanitizers                                            *)
(***************************************************************************)
\* C16: sanitizing what a sanitizer returned gives the same value again,
\* for the client's sanitizeObject and for the sync service's sanitizeValue.
C16_SanitizeIdempotent ==
  Len(san.out) = 2 => san.out[2] = san.out[1]

\* a string without its unpaired surrogates: a high surrogate stays with
\* the low surrogate that follows it, every other surrogate goes
RECURSIVE WithoutUnpaired(_)
WithoutUnpaired(s) ==
  IF s = <<>> THEN <<>>
  ELSE IF Len(s) >= 2 /\ s[1] = "H" /\ s[2] = "L"
       THEN <<"H", "L">> \o WithoutUnpaired(SubSeq(s, 3, Len(s)))
       ELSE IF s[1] \in {"H", "L"}
            THEN WithoutUnpaired(Tail(s))
            ELSE <<s[1]>> \o WithoutUnpaired(Tail(s))

\* C17: sanitizing a string removes its unpaired surrogates and nothing
\* else: every other code unit and both halves of every surrogate pair
\* stay, in place and in order.
C17_OnlyUnpairedRemoved ==
  (san.x.t = "string" /\ Len(san.out) >= 1) =>
    san.out[1] = Str(WithoutUnpaired(san.x.s))


(***************************************************************************)
(* Properties of the store after passes in succession                      *)
(***************************************************************************)
\* the record whose reconciliation has just ended (0 when there is none)
JustDone == IF pc \in {"loop", "done"} /\ step = "begin" THEN i - 1 ELSE 0

\* C18: when the reconciliation of a model has ended without an error
\* entry, the parameter rows the store holds for it are the parameters
\* parsed from its schema in this pass: no older row is left, no name
\* occurs twice, and there is none when nothing was parsed.
C18_ParametersReplaced ==
  (JustDone > 0 /\ JustDone \notin Range(errIdx)) =>
    LET m == models[JustDone]
        rows == RowsOf(tParams, m.endpoint_id)
    IN /\ rows = ParameterRecords(m)
       /\ \A j, k \in DOMAIN rows :
            rows[j].parameter_name = rows[k].parameter_name => j = k

\* C19: at the end of every pass each model row has exactly one pricing row
\* and each pricing row belongs to a model row.
C19_PricingOneToOne ==
  pc = "done" =>
    /\ \A id \in KeysOf(tModels) : Cardinality(RowsFor(tPricing, id)) = 1
    /\ \A k \in DOMAIN tPricing : tPricing[k].model_id \in KeysOf(tModels)

\* the records of a catalog that a pass reconciles
ValidIn(c) == {k \in DOMAIN c : ~IsInvalid(c[k])}

\* C20: a second pass over the same catalog, with the provider and the
\* store answering every call of both passes, adds no model: it counts
\* every model as updated and leaves the parameter rows of every model as
\* the first pass left them.
C20_SecondPassAddsNothing ==
  (/\ first.done /\ first.pc = "done" /\ pc = "done"
   /\ first.catalog = Catalog
   /\ faults = MaxRepeatFaults) =>
    /\ result.modelsAdded = 0
    /\ result.modelsUpdated = Cardinality(ValidIn(Catalog))
    /\ \A id \in Ids : RowsOf(tParams, id) = RowsOf(first.tParams, id)
    /\ KeysOf(tModels) = KeysOf(first.tModels)

\* C20 witness: the second pass over a catalog of the two models, one of
\* them with parameters, is over.
C20_Witness ==
  /\ first.done /\ first.pc = "done" /\ pc = "done"
  /\ first.catalog = Catalog
  /\ faults = MaxRepeatFaults
  /\ Cardinality(ValidIn(Catalog)) = 2
  /\ result.modelsUpdated = 2
  /\ Len(RowsOf(tParams, "a")) = 2

\* the ids of the records of a catalog
ListedIn(c) == {c[k].endpoint_id : k \in DOMAIN c}

\* C21: a pass never deletes a persisted model: the ids in the models table
\* only grow, and a model the store held before the pass whose id the
\* provider's catalog of this pass does not list keeps its model row, its
\* parameter rows and its pricing row as they were.
C21_AbsentModelsKept ==
  first.done =>
    /\ KeysOf(first.tModels) \subseteq KeysOf(tModels)
    /\ \A id \in KeysOf(first.tModels) \ ListedIn(Catalog) :
         /\ ModelRowsOf(tModels, id) = ModelRowsOf(first.tModels, id)
         /\ RowsOf(tParams, id) = RowsOf(first.tParams, id)
         /\ RowsOf(tPricing, id) = RowsOf(first.tPricing, id)

\* C21 witness: a later pass over a catalog that no longer lists a model
\* with parameter rows has deleted and written rows of another model and
\* returned.
C21_Witness ==
  /\ first.done
  /\ pc = "done"
  /\ \E id \in KeysOf(first.tModels) \ ListedIn(Catalog) :
       /\ RowsOf(first.tParams, id) # <<>>
       /\ RowsOf(first.tPricing, id) # <<>>
  /\ \E n \in StoreEvents :
       io[n].op = "model_parameters.delete" /\ io[n].outcome = "ok"
  /\ result.pricingUpdated > 0

(***************************************************************************)
(* Calls of calculateCreditCost on prices and rates in thousandths of a    *)
(* dollar.  getActiveCreditRate hands on the cost_per_credit_usd of the    *)
(* configuration row as it finds it, so a rate of 0 is among the inputs.   *)
(***************************************************************************)
MaxPrice == 12
MaxRate == 4

InitCredit ==
  /\ InitCommon
  /\ pages = <<<<>>>>
  /\ faults = 0
  /\ pc = "call"
  /\ runsLeft = 0
  /\ san = NoSan
  /\ upd = NoUpd
  /\ call \in {[fn |-> "calculateCreditCost", arg |-> <<p, r>>, out |-> <<>>] :
                 p \in 0..MaxPrice, r \in 0..MaxRate}

NextCredit == CalculateCreditCostCall

SpecCredit == InitCredit /\ [][NextCredit]_vars

\* C22: the credit cost is max(1, ceil(price / rate)), an integer of at
\* least 1, and the credit cost of a price of 0 is 1 whatever the rate.
C22_CreditCostAtLeastOne ==
  (call.fn = "calculateCreditCost" /\ call.out # <<>>) =>
    LET p == call.arg[1]
        r == call.arg[2]
        c == call.out[1]
    IN /\ c >= 1
       /\ p = 0 => c = 1
       /\ r > 0 => /\ c * r >= p
                   /\ c > 1 => (c - 1) * r < p

\* the same for positive rates only
C22_PositiveRates ==
  (call.fn = "calculateCreditCost" /\ call.out # <<>> /\ call.arg[2] > 0) =>
    LET p == call.arg[1]
        r == call.arg[2]
        c == call.out[1]
    IN /\ c >= 1
       /\ p = 0 => c = 1
       /\ c * r >= p
       /\ c > 1 => (c - 1) * r < p

(***************************************************************************)
(* One pass over a catalog of well-formed records of the three models: one *)
(* quoted at 0.05 USD, one the provider has no quote for, one quoted at 0. *)
(***************************************************************************)
MaxQuoteModels == 2
MaxQuoteFaults == 1

PricedIds == {"a", "b", "c"}
PricedModels == {ValidModel(id) : id \in PricedIds}

InitQuotes ==
  /\ InitCommon
  /\ pages \in {Paginated(c) : c \in SeqsUpTo(PricedModels, MaxQuoteModels)}
  /\ faults = MaxQuoteFaults
  /\ pc = "idle"
  /\ runsLeft = 0
  /\ san = NoSan
  /\ call = NoCall
  /\ upd = NoUpd

SpecQuotes == InitQuotes /\ [][Next]_vars

\* the credit cost of every pricing record of a pass, for the rate of the pass
C22_PassRecords ==
  \A k \in DOMAIN tPricing :
    LET p == tPricing[k].price_per_call
        c == tPricing[k].credit_cost
    IN /\ c >= 1
       /\ p = 0 => c = 1
       /\ c * creditRate >= p
       /\ c > 1 => (c - 1) * creditRate < p

\* the quote the pass holds for an id: <<>> when it holds none
QuoteHeld(id) == IF id \in DOMAIN pricingMap THEN <<pricingMap[id]>> ELSE <<>>

\* C23: a pricing record written for a model without a quote has price 0
\* and type 'free'; one written for a model quoted at a non-zero price has
\* that price and type 'fixed'; the type is 'free' exactly when the price is
\* 0; and a quote of price 0 gives the record a missing quote gives, apart
\* from pricing_details.
C23_PriceAndType ==
  \A k \in DOMAIN tPricing :
    LET r == tPricing[k]
        q == QuoteHeld(r.model_id)
        unquoted == [model_id |-> r.model_id, price_per_call |-> 0,
                     pricing_type |-> "free", credit_cost |-> 1,
                     pricing_details |-> <<>>]
    IN /\ q = <<>> => r = unquoted
       /\ (q # <<>> /\ q[1].unit_price # 0) =>
            r.price_per_call = q[1].unit_price /\ r.pricing_type = "fixed"
       /\ r.pricing_type = "free" <=> r.price_per_call = 0
       /\ (q # <<>> /\ q[1].unit_price = 0) =>
            /\ [r EXCEPT !.pricing_details = <<>>] = unquoted
            /\ r.pricing_details = <<q[1].unit, q[1].currency>>

\* C23 witness: a returned pass has written the record of a model quoted at
\* 0 and the record of a model without a quote.
C23_Witness ==
  /\ pc = "done"
  /\ \E k \in DOMAIN tPricing :
       /\ QuoteHeld(tPricing[k].model_id) # <<>>
       /\ tPricing[k].price_per_call = 0
       /\ tPricing[k].pricing_details # <<>>
  /\ \E k \in DOMAIN tPricing :
       /\ QuoteHeld(tPricing[k].model_id) = <<>>
       /\ tPricing[k].pricing_type = "free"

(***************************************************************************)
(* The task type of a record: its category is absent, empty or one word,   *)
(* its endpoint id has one to MaxWords words.                              *)
(***************************************************************************)
MaxWords == 2

Categories == {<<>>, <<<<>>>>} \cup {<<<<w>>>> : w \in Words}
EndpointNames == SeqsUpTo(Words, MaxWords) \ {<<>>}

InitTask ==
  /\ InitCommon
  /\ pages = <<<<>>>>
  /\ faults = 0
  /\ pc = "call"
  /\ runsLeft = 0
  /\ san = NoSan
  /\ upd = NoUpd
  /\ call \in {[fn |-> "taskType",
                arg |-> [category |-> c, endpoint_id |-> e], out |-> <<>>] :
                 c \in Categories, e \in EndpointNames}

NextTask == TaskTypeCall

SpecTask == InitTask /\ [][NextTask]_vars

\* a string spells one of the keywords, in whatever case
Spells(str, keywords) == \E k \in DOMAIN str : str[k][1] \in keywords

\* the string a record is classified by
ClassifiedString ==
  IF call.arg.category \in {<<>>, <<<<>>>>}
  THEN call.arg.endpoint_id ELSE call.arg.category[1]

\* C24: the task type is that of the first keyword group the classified
\* string contains, in the order video, audio, text, image, and MULTIMODAL
\* when it contains none; the match ignores case; the classified string is
\* the record's category when it has one and its endpoint id otherwise.
C24_FirstMatchWins ==
  (call.fn = "taskType" /\ call.out # <<>>) =>
    LET s == ClassifiedString
        t == call.out[1]
    IN /\ t = "VIDEO" <=> Spells(s, VideoWords)
       /\ t = "AUDIO" <=> ~Spells(s, VideoWords) /\ Spells(s, AudioWords)
       /\ t = "TEXT" <=> /\ ~Spells(s, VideoWords \cup AudioWords)
                         /\ Spells(s, TextWords)
       /\ t = "IMAGE" <=> /\ ~Spells(s, VideoWords \cup AudioWords \cup TextWords)
                          /\ Spells(s, ImageWords)
       /\ t = "MULTIMODAL" <=>
            ~Spells(s, VideoWords \cup AudioWords \cup TextWords \cup ImageWords)

\* C24 witness: an endpoint id that spells an image keyword and then, in
\* upper case, a video keyword was classified VIDEO, the record having no
\* category.
C24_Witness ==
  /\ call.fn = "taskType"
  /\ call.arg.category = <<>>
  /\ Len(call.arg.endpoint_id) = 2
  /\ call.arg.endpoint_id[1][1] \in ImageWords
  /\ call.arg.endpoint_id[2] = <<"video", TRUE>>
  /\ call.out = <<"VIDEO">>

(***************************************************************************)
(* One pass from an empty store over a catalog of up to MaxLoopModels      *)
(* records, well-formed or malformed, with up to MaxLoopFaults failing     *)
(* requests or store operations: the runs in which the model loop is       *)
(* looked at record by record.                                             *)
(***************************************************************************)
MaxLoopModels == 2
MaxLoopFaults == 1

InitLoop ==
  /\ InitCommon
  /\ pages \in {Paginated(c) : c \in SeqsUpTo(CatalogModels, MaxLoopModels)}
  /\ faults = MaxLoopFaults
  /\ pc = "idle"
  /\ runsLeft = 0
  /\ san = NoSan
  /\ call = NoCall
  /\ upd = NoUpd

SpecLoop == InitLoop /\ [][Next]_vars

\* the store operations of the log, in the order they were issued
StoreLog == SelectSeq(io, LAMBDA e : e.kind = "store")

\* the model an error entry names for the record at position k
NamedFor(k) ==
  IF ~models[k].present \/ models[k].endpoint_id = NoId \/ ~models[k].metadata
  THEN "unknown" ELSE models[k].endpoint_id

\* C25: the records are reconciled one after the other in catalog order:
\* every store operation of a record precedes every store operation of a
\* later record, the entries of result.errors are in catalog order, and the
\* delete of a model's parameter rows precedes their insert.
C25_CatalogOrder ==
  LET log == StoreLog
  IN /\ \A j \in DOMAIN log : log[j].idx \in DOMAIN models /\ log[j].idx <= i
     /\ \A j \in 1..(Len(log) - 1) : log[j].idx <= log[j + 1].idx
     /\ Len(result.errors) = Len(errIdx)
     /\ \A e \in 1..(Len(errIdx) - 1) : errIdx[e] < errIdx[e + 1]
     /\ \A e \in DOMAIN errIdx : result.errors[e].model = NamedFor(errIdx[e])
     /\ \A j \in DOMAIN log :
          log[j].op = "model_parameters.insert" =>
            /\ j > 1
            /\ log[j - 1].idx = log[j].idx
            /\ log[j - 1].op = "model_parameters.delete"

\* C25 witness: a returned pass over two records has two error entries,
\* the second one caught from a store operation that failed after the
\* parameter rows of its model were inserted.
C25_Witness ==
  /\ pc = "done"
  /\ Len(models) = 2
  /\ Len(errIdx) = 2
  /\ \E n \in StoreEvents : io[n].idx = errIdx[2] /\ io[n].outcome # "ok"
  /\ \E n \in StoreEvents :
       io[n].op = "model_parameters.insert" /\ io[n].outcome = "ok"

\* the record at position k is missing, or lacks its endpoint id or its
\* metadata
Malformed(k) ==
  ~models[k].present \/ models[k].endpoint_id = NoId \/ ~models[k].metadata

\* the well-formed records among the first n
WellFormedUpTo(n) == {k \in 1..n : ~Malformed(k)}

\* C26: a malformed record causes no store operation, gets exactly one
\* skip entry in result.errors, increments no counter, and the pass goes on
\* with the next record.
C26_MalformedRecordSkipped ==
  pc \in {"loop", "done"} =>
    LET log == StoreLog
        wellFormed == WellFormedUpTo(Min(i, Len(models)))
        nParams == [k \in DOMAIN models |-> Len(Parameters(models[k]))]
    IN /\ \A j \in DOMAIN log : ~Malformed(log[j].idx)
       /\ \A k \in 1..(i - 1) :
            Malformed(k) =>
              /\ Cardinality(ErrorEntriesOf(k)) = 1
              /\ \A e \in ErrorEntriesOf(k) :
                   result.errors[e] =
                     [model |-> "unknown",
                      error |-> "Model missing endpoint_id or metadata"]
       /\ result.modelsAdded + result.modelsUpdated <= Cardinality(wellFormed)
       /\ result.pricingUpdated <= Cardinality(wellFormed)
       /\ result.parametersAdded <= SumOver(nParams, wellFormed)
       /\ step # "begin" => ~Malformed(i)

\* C26 witness: a returned pass skipped a record without metadata and
\* reconciled the record after it.
C26_Witness ==
  /\ pc = "done"
  /\ Len(models) = 2
  /\ models[1].present /\ models[1].endpoint_id # NoId /\ ~models[1].metadata
  /\ Len(result.errors) = 1
  /\ result.modelsAdded = 1
  /\ result.pricingUpdated = 1
  /\ \E n \in StoreEvents : io[n].idx = 2

\* the record at position k got as far as result.pricingUpdated++
PricingCountedAt(k) ==
  \E n \in StoreEvents :
    /\ io[n].idx = k
    /\ io[n].op \in {"model_pricing.update", "model_pricing.insert"}
    /\ io[n].outcome # "throw"

\* C30: whenever the loop is between two records, and so at the end of
\* every pass that returns, each record behind it has either one error
\* entry or one increment of pricingUpdated, never both, so errors.length +
\* pricingUpdated is the number of records behind it; and pricingUpdated <=
\* modelsAdded + modelsUpdated <= that number.
C30_OneOutcomePerRecord ==
  (pc \in {"loop", "done"} /\ step = "begin") =>
    /\ \A k \in 1..(i - 1) :
         /\ Cardinality(ErrorEntriesOf(k)) <= 1
         /\ (ErrorEntriesOf(k) = {}) <=> PricingCountedAt(k)
    /\ Len(result.errors) = Len(errIdx)
    /\ Len(result.errors) + result.pricingUpdated = i - 1
    /\ pc = "done" => i - 1 = Len(models)
    /\ result.pricingUpdated <= result.modelsAdded + result.modelsUpdated
    /\ result.modelsAdded + result.modelsUpdated <= i - 1

\* C30 witness: a returned pass over two records priced the first and
\* caught an error of the second after its model row was written.
C30_Witness ==
  /\ pc = "done"
  /\ Len(models) = 2
  /\ errIdx = <<2>>
  /\ PricingCountedAt(1)
  /\ result.pricingUpdated = 1
  /\ result.modelsAdded = 2

\* the requests fetchPricing has issued for the batch at offset at
RequestsOf(at) == {n \in PricingEvents : io[n].arg.at = at}

\* C28: fetchPricing issues at most 4 requests for a batch, whatever the
\* server answers, a 200 response without a prices array included, and so
\* comes to an end.
C28_AtMostFourRequests ==
  \A n \in PricingEvents : Cardinality(RequestsOf(io[n].arg.at)) <= MaxRetries + 1

(***************************************************************************)
(* Calls of estimateCost for a model and a quantity, against a provider    *)
(* whose answer, when it answers, has any of the bodies below.             *)
(***************************************************************************)
MaxCost == 2
MaxQuantity == 2
MaxEstimateFaults == 1

Estimates ==
  {[cost_per_call |-> <<>>], [cost_per_call |-> <<[number |-> FALSE, n |-> 0]>>]}
    \cup {[cost_per_call |-> <<[number |-> TRUE, n |-> n]>>] : n \in 0..MaxCost}

EstimateBodies ==
  {[estimates |-> <<>>]}
    \cup {[estimates |-> <<e>>] : e \in UNION {[S -> Estimates] : S \in SUBSET Ids}}

InitEstimate ==
  /\ InitCommon
  /\ pages = <<<<>>>>
  /\ faults = MaxEstimateFaults
  /\ pc = "call"
  /\ runsLeft = 0
  /\ san = NoSan
  /\ upd = NoUpd
  /\ call \in {[fn |-> "estimateCost",
                arg |-> [modelId |-> id, callQuantity |-> q],
                body |-> b, out |-> <<>>] :
                 id \in Ids, q \in 1..MaxQuantity, b \in EstimateBodies}

NextEstimate ==
  \/ EstimateCostCall
  \/ EstimateResponse

SpecEstimate == InitEstimate /\ [][NextEstimate]_vars

\* the estimate the body of the answer holds for the model: <<>> when the
\* body has no estimates or none for the model
EstimateFor(id) ==
  IF call.body.estimates = <<>> THEN <<>>
  ELSE IF id \in DOMAIN call.body.estimates[1]
       THEN <<call.body.estimates[1][id]>> ELSE <<>>

\* C27: estimateCost never throws: it returns 0 when its request fails,
\* when the answer has no estimate for the model and when reading the
\* answer fails in any other way, and the estimate's cost_per_call
\* otherwise.
C27_EstimateNeverThrows ==
  (call.fn = "estimateCost" /\ pc = "returned") =>
    LET r == call.out[1]
        e == EstimateFor(call.arg.modelId)
        answered == io[Len(io)].outcome = "ok"
        readable == /\ e # <<>>
                    /\ e[1].cost_per_call # <<>>
                    /\ e[1].cost_per_call[1].number
    IN /\ ~r.threw
       /\ ~answered => r.value = 0
       /\ e = <<>> => r.value = 0
       /\ (answered /\ readable) => r.value = e[1].cost_per_call[1].n
       /\ ~readable => r.value = 0

\* C27 witness: the request failed although the provider holds an estimate
\* of 0.002 USD for the model, and estimateCost returned 0.
C27_Witness ==
  /\ call.fn = "estimateCost" /\ pc = "returned"
  /\ io[Len(io)].kind = "estimate" /\ io[Len(io)].outcome = "error"
  /\ EstimateFor(call.arg.modelId) = <<[cost_per_call |-> <<[number |-> TRUE, n |-> 2]>>]>>
  /\ call.out = <<[threw |-> FALSE, value |-> 0]>>

(***************************************************************************)
(* A run of updateModelParameters on a store an earlier sync has filled:   *)
(* for each model of the table a model row and one parameter row, of a     *)
(* parameter its schema no longer has.  first keeps the store as the run   *)
(* found it.                                                               *)
(***************************************************************************)
MaxUpdModels == 3
MaxUpdFaults == 1

\* the orders in which the select may return the rows of the models table
StoredIds ==
  {s \in SeqsUpTo(PricedIds, Min(MaxUpdModels, Cardinality(PricedIds))) :
     \A j1, j2 \in DOMAIN s : j1 # j2 => s[j1] # s[j2]}

OldRows(ids) ==
  [j \in DOMAIN ids |-> [model_id |-> ids[j], parameter_name |-> "old", ui_order |-> 0]]

InitUpdate ==
  /\ io = <<>>
  /\ fm = IdleFetch
  /\ ret = [ok |-> FALSE, models |-> <<>>]
  /\ thrown = ""
  /\ creditRate = DefaultRate
  /\ models = <<>>
  /\ pricingMap = EmptyMap
  /\ fp = IdlePricing
  /\ i = 1
  /\ step = "begin"
  /\ loc = NoLoc
  /\ result = NewResult
  /\ errIdx = <<>>
  /\ pages = <<<<>>>>
  /\ faults = MaxUpdFaults
  /\ pc = "script"
  /\ runsLeft = 0
  /\ san = NoSan
  /\ call = NoCall
  /\ \E ids \in StoredIds :
       /\ upd = [pc |-> "start", models |-> ids, k |-> 0,
                 updated |-> 0, failed |-> 0, skipped |-> 0]
       /\ tModels = {ModelData(ValidModel(ids[j])) : j \in DOMAIN ids}
       /\ tParams = OldRows(ids)
       /\ tPricing = <<>>
       /\ first = [NoFirst EXCEPT !.tModels = tModels, !.tParams = OldRows(ids)]

NextUpdate ==
  \/ UpdStart
  \/ UpdFetchSchema
  \/ UpdDelete
  \/ UpdInsert

SpecUpdate == InitUpdate /\ [][NextUpdate]_vars

\* the schema fetch of the model at position k threw
SchemaFetchThrew(k) ==
  \E n \in DOMAIN io : io[n].kind = "schema" /\ io[n].idx = k /\ io[n].outcome = "error"

\* the document of an id has no POST path, or a body schema without
\* properties
YieldsNoParameters(id) == ~OpenapiOf(id)[1].post \/ OpenapiOf(id)[1].props = <<>>

\* the positions behind the loop whose model is one the script skips
SkippedPositions ==
  {k \in DOMAIN upd.models :
     /\ k < upd.k
     /\ SchemaFetchThrew(k) \/ YieldsNoParameters(upd.models[k])}

\* C29: updateModelParameters skips a model whose schema fetch throws,
\* whose document yields no input schema or whose parameter list is empty:
\* it issues no delete and no insert for it and leaves its parameter rows
\* as they were, goes on with the next model, and counts every model it
\* read as exactly one of updated, skipped, failed.
C29_SkippedModelsUntouched ==
  upd.pc \in {"fetch", "delete", "insert", "done"} =>
    /\ \A k \in SkippedPositions :
         /\ \A n \in StoreEvents : io[n].idx # k
         /\ RowsOf(tParams, upd.models[k]) = RowsOf(first.tParams, upd.models[k])
    /\ upd.skipped = Cardinality(SkippedPositions)
    /\ upd.updated + upd.skipped + upd.failed = upd.k - 1
    /\ upd.pc = "done" => upd.k - 1 = Len(upd.models)

\* C29 witness: a run over three models has skipped all three, one for
\* each reason, and is over with their parameter rows in place.
C29_Witness ==
  /\ pc = "script"
  /\ upd.pc = "done"
  /\ Len(upd.models) = 3
  /\ upd.skipped = 3
  /\ \E k \in DOMAIN upd.models :
       SchemaFetchThrew(k) /\ ~YieldsNoParameters(upd.models[k])
  /\ tParams = first.tParams
  /\ Len(tParams) = 3

(***************************************************************************)
(* Up to MaxCalls calls of getFalClient in one process, from a null        *)
(* clientInstance, with FAL_KEY set or not.                                *)
(***************************************************************************)
InitClient ==
  /\ InitCommon
  /\ pages = <<<<>>>>
  /\ faults = 0
  /\ pc = "call"
  /\ runsLeft = 0
  /\ san = NoSan
  /\ upd = NoUpd
  /\ call \in {[fn |-> "getFalClient", env |-> e, clientInstance |-> <<>>,
                made |-> 0, log |-> <<>>] : e \in {"", "e"}}

NextClient ==
  \/ GetFalClientCall
  \/ SetEnvKey

SpecClient == InitClient /\ [][NextClient]_vars

\* the calls of the log that returned a client
Successful == {j \in DOMAIN call.log : ~call.log[j].threw}

\* C31: every call of getFalClient after the first successful one returns
\* the instance that one returned, whatever apiKey it passes, and no second
\* client is built; a call throws only when neither its argument nor
\* FAL_KEY holds a key, stores no instance then, and the next call attempts
\* the construction again.
C31_SingletonClient ==
  call.fn = "getFalClient" =>
    /\ call.made <= 1
    /\ \A j \in DOMAIN call.log :
         LET c == call.log[j]
         IN /\ (\E j0 \in Successful : j0 < j) =>
                 /\ ~c.threw /\ ~c.tried
                 /\ \A j0 \in Successful : c.out = call.log[j0].out
            /\ c.threw <=> (c.tried /\ c.apiKey = "" /\ c.env = "")
            /\ c.threw =>
                 /\ c.out = <<>>
                 /\ j < Len(call.log) => call.log[j + 1].tried
                 /\ j = Len(call.log) => call.clientInstance = <<>>
            /\ ~c.threw => c.out # <<>> /\ c.out[1].serial = 1
    /\ Successful # {} =>
         call.clientInstance = call.log[CHOOSE j \in Successful : TRUE].out

\* C31 witness: the first call threw for want of a key, the second built a
\* client with the key it was passed, and the third, passing another key,
\* got that same client.
C31_Witness ==
  /\ call.fn = "getFalClient"
  /\ Len(call.log) = 3
  /\ call.log[1].threw
  /\ ~call.log[2].threw /\ call.log[2].tried /\ call.log[2].apiKey = "k1"
  /\ call.log[3].apiKey = "k2"
  /\ call.log[3].out = <<[apiKey |-> "k1", serial |-> 1]>>

=============================================================================
